---- MODULE Spec2Model ----
(***************************************************************************)
(* Model of the browser-session provisioning code of actual-tests:         *)
(*   drivers/webdrivers/WebdriverFactory.py  (configuration, create_driver)*)
(*   drivers/webdrivers/webdrivers.py        (make_driver, the free copy)  *)
(*   drivers/webdrivers/AuxiliaryMethods.py  (explicit waits and helpers)  *)
(*                                                                         *)
(* Conventions.                                                            *)
(*  - A Python str is a sequence of symbols.  A symbol is either one of    *)
(*    the characters the code treats specially (" ", "=", "#", ";", the    *)
(*    newline) or a word, a maximal run of ordinary characters, so         *)
(*    "browser=chrome" is <<"browser", "=", "chrome">> and "" is <<>>.     *)
(*    The window value, which the code takes apart at an "x", is written   *)
(*    one character per symbol.                                            *)
(*  - An optional value (Python None or a value) is <<>> or <<v>>.         *)
(*  - A handler is one action.  The calls it makes into Selenium and the   *)
(*    file system are recorded, in order, in the trace of its result; the  *)
(*    outcome of each such call is an input of the action.  The polling    *)
(*    loop of a wait is the exception: it takes one step per evaluation.   *)
(*  - The program is single-threaded.  drv, ov, wt, ps and fp hold one     *)
(*    call until its caller has taken the result; disk, file and           *)
(*    environment change between calls.                                    *)
(*  - There is one specification per part: SpecProvision, SpecLoad,        *)
(*    SpecOverlay, SpecWait, SpecResolve, SpecParse, SpecFromProperties.   *)
(*    Each leaves the variables of the other parts unchanged.              *)
(***************************************************************************)
EXTENDS Integers, Sequences, FiniteSets, TLC

VARIABLES
    disk,         \* the local driver executables present on disk
    drv,          \* the last call of create_driver / make_driver
    file,         \* elements/parametrization.properties: None or Some(lines)
    param_cache,  \* WebdriverFactory._param_cache: None or Some(map)
    lastRead,     \* history: the file content at the last read that succeeded
    ld,           \* the last call of load_parametrization
    env,          \* os.environ
    ov,           \* the last call of _overlay_env
    wt,           \* the wait helper in progress, or the last one finished
    rs,           \* the last call of _local_driver_path
    ps,           \* the last call of _read_properties on a text of its own
    fp            \* the last call of create_from_properties / make_driver_from_env

None == <<>>
Some(v) == <<v>>

(***************************************************************************)
(* str.lower(), symbol by symbol.                                          *)
(***************************************************************************)
LowerSym(c) ==
    CASE c = "Chrome" -> "chrome"
      [] c = "Edge" -> "edge"
      [] c = "ENV" -> "env"
      [] c = "Env" -> "env"
      [] c = "FILE" -> "file"
      [] c = "Firefox" -> "firefox"
      [] c = "True" -> "true"
      [] c = "M" -> "m"
      [] c = "X" -> "x"
      [] OTHER -> c

Lower(s) == [i \in 1..Len(s) |-> LowerSym(s[i])]

(***************************************************************************)
(* Browser kinds and the local driver executables.                         *)
(***************************************************************************)
Chrome == <<"chrome">>
Edge == <<"edge">>
Firefox == <<"firefox">>
Browser == {Chrome, Edge, Firefox}

\* the directory _find_repo_root() returns; fixed for one process
_find_repo_root == <<"repo">>

ValueError == [type |-> "ValueError",
               fmt |-> "browser debe ser: chrome | edge | firefox",
               browser |-> <<>>, driver_path |-> <<>>]

\* a variant that only returns a path that exists
_local_driver_path_existing(root, browser) ==
    LET p == IF browser = Chrome
               THEN root \o <<"drivers", "chromedriver-win64", "chromedriver.exe">>
             ELSE IF browser = Edge
               THEN root \o <<"drivers", "edge", "msedgedriver.exe">>
             ELSE root \o <<"drivers", "firefox", "geckodriver.exe">>
    IN IF browser \in Browser /\ p \in disk THEN Some(p) ELSE None

\* Some(path), or None where the code raises ValueError
_local_driver_path(root, browser) ==
    IF browser = Chrome
      THEN Some(root \o <<"drivers", "chromedriver-win64", "chromedriver.exe">>)
    ELSE IF browser = Edge
      THEN Some(root \o <<"drivers", "edge", "msedgedriver.exe">>)
    ELSE IF browser = Firefox
      THEN Some(root \o <<"drivers", "firefox", "geckodriver.exe">>)
    ELSE None

\* the copy of the function in webdrivers.py
webdrivers_local_driver_path(root, browser) ==
    IF browser = Chrome
      THEN Some(root \o <<"drivers", "chromedriver-win64", "chromedriver.exe">>)
    ELSE IF browser = Edge
      THEN Some(root \o <<"drivers", "edge", "msedgedriver.exe">>)
    ELSE IF browser = Firefox
      THEN Some(root \o <<"drivers", "firefox", "geckodriver.exe">>)
    ELSE None

\* the executables the repository can hold under drivers/
DriverPaths ==
    { _find_repo_root \o <<"drivers", "chromedriver-win64", "chromedriver.exe">>,
      _find_repo_root \o <<"drivers", "edge", "msedgedriver.exe">>,
      _find_repo_root \o <<"drivers", "firefox", "geckodriver.exe">> }

(***************************************************************************)
(* Exception classes.  NoSuchDriverException and the other Selenium        *)
(* errors derive from WebDriverException; OSError does not.                *)
(***************************************************************************)
WebDriverErrors ==
    {"WebDriverException", "NoSuchDriverException",
     "SessionNotCreatedException", "InvalidArgumentException"}
OtherErrors == {"OSError"}
ErrorClasses == WebDriverErrors \cup OtherErrors

\* narrower and wider handlers than the one of create_driver
ManagerHandlerNoBase(cls) == cls = "NoSuchDriverException"

ManagerHandlerAll(cls) == TRUE

\* except (NoSuchDriverException, WebDriverException)
ManagerHandlerCatches(cls) ==
    cls = "NoSuchDriverException" \/ cls \in WebDriverErrors

(***************************************************************************)
(* Calls made to the collaborators, as trace events.                       *)
(***************************************************************************)
Ev(op, on, args, path, value, cls) ==
    [op |-> op, on |-> on, args |-> args, path |-> path,
     value |-> value, cls |-> cls]

\* options.add_argument(...) of the three branches
HeadlessArgs(browser, headless) ==
    IF ~headless THEN <<>>
    ELSE IF browser = Firefox THEN <<"-headless">>
    ELSE <<"--headless=new">>

\* the session a constructor returns
Session(plan, browser, args, path) ==
    [plan |-> plan, browser |-> browser, args |-> args, path |-> path]

\* no setter of the session fails
NoFail == [at |-> "none", cls |-> "none"]

Setters == {"implicitly_wait", "set_page_load_timeout", "set_script_timeout"}

\* a variant whose third test is an elif of the second
_apply_timeouts_elif(on, implicit_wait_s, page_load_timeout_s, script_timeout_s, fail) ==
    LET c1 == implicit_wait_s # 0
        f1 == c1 /\ fail.at = "implicitly_wait"
        c2 == ~f1 /\ page_load_timeout_s # None
        f2 == c2 /\ fail.at = "set_page_load_timeout"
        c3 == ~f1 /\ ~c2 /\ script_timeout_s # None
        f3 == c3 /\ fail.at = "set_script_timeout"
        e1 == IF c1 THEN <<Ev("implicitly_wait", on, <<>>, <<>>, Some(implicit_wait_s), "")>>
              ELSE <<>>
        e2 == IF c2 THEN <<Ev("set_page_load_timeout", on, <<>>, <<>>, page_load_timeout_s, "")>>
              ELSE <<>>
        e3 == IF c3 THEN <<Ev("set_script_timeout", on, <<>>, <<>>, script_timeout_s, "")>>
              ELSE <<>>
    IN [events |-> e1 \o e2 \o e3,
        raised |-> IF f1 \/ f2 \/ f3 THEN fail.cls ELSE "none"]

(***************************************************************************)
(* _apply_timeouts: the setters called on the session `on', in order, and  *)
(* the exception class that ends them ("none" when all return).  `fail'    *)
(* says which setter raises, and what, if it is called.                    *)
(***************************************************************************)
_apply_timeouts(on, implicit_wait_s, page_load_timeout_s, script_timeout_s, fail) ==
    LET c1 == implicit_wait_s # 0
        f1 == c1 /\ fail.at = "implicitly_wait"
        c2 == ~f1 /\ page_load_timeout_s # None
        f2 == c2 /\ fail.at = "set_page_load_timeout"
        c3 == ~f1 /\ ~f2 /\ script_timeout_s # None
        f3 == c3 /\ fail.at = "set_script_timeout"
        e1 == IF c1 THEN <<Ev("implicitly_wait", on, <<>>, <<>>, Some(implicit_wait_s), "")>>
              ELSE <<>>
        e2 == IF c2 THEN <<Ev("set_page_load_timeout", on, <<>>, <<>>, page_load_timeout_s, "")>>
              ELSE <<>>
        e3 == IF c3 THEN <<Ev("set_script_timeout", on, <<>>, <<>>, script_timeout_s, "")>>
              ELSE <<>>
    IN [events |-> e1 \o e2 \o e3,
        raised |-> IF f1 \/ f2 \/ f3 THEN fail.cls ELSE "none"]

Returned(d, trace) ==
    [status |-> "returned", session |-> Some(d), exc |-> None, trace |-> trace]

Raised(e, trace) ==
    [status |-> "raised", session |-> None, exc |-> Some(e), trace |-> trace]

Exc(cls) == [type |-> cls, fmt |-> "", browser |-> <<>>, driver_path |-> <<>>]

\* the message without the path
LocalMissingNoPath(browser, driver_path) ==
    [type |-> "FileNotFoundError",
     fmt |-> "No encuentro el driver local para {browser}: {driver_path}",
     browser |-> browser, driver_path |-> <<>>]

\* FileNotFoundError(f"No encuentro el driver local para {browser}: {driver_path}")
LocalMissing(browser, driver_path) ==
    [type |-> "FileNotFoundError",
     fmt |-> "No encuentro el driver local para {browser}: {driver_path}",
     browser |-> browser, driver_path |-> driver_path]

\* a variant that launches the local driver a second time when the first fails
LocalPlanRetry(browser, driver_path, args, iw, plt, st, dsk, o, pre) ==
    LET chk == <<Ev("exists", "", <<>>, driver_path, <<>>, "")>>
        d == Session("local", browser, args, driver_path)
        ctor == <<Ev("local_ctor", "local", args, driver_path, <<>>, "")>>
        again == IF o.local # "ok" THEN ctor ELSE <<>>
        ap == _apply_timeouts("local", iw, plt, st, o.localFail)
    IN IF driver_path \notin dsk
         THEN Raised(LocalMissing(browser, driver_path), pre \o chk)
       ELSE IF ap.raised # "none"
         THEN Raised(Exc(ap.raised), pre \o chk \o ctor \o again \o ap.events)
       ELSE Returned(d, pre \o chk \o ctor \o again \o ap.events)

(***************************************************************************)
(* The part of create_driver after the managed attempt: the existence      *)
(* check, the local constructor and the timeouts.  `pre' is the trace so   *)
(* far; o.local, o.localFail are the outcomes of the local constructor     *)
(* and of the setters of its session.                                      *)
(***************************************************************************)
LocalPlan(browser, driver_path, args, iw, plt, st, dsk, o, pre) ==
    LET chk == <<Ev("exists", "", <<>>, driver_path, <<>>, "")>>
        d == Session("local", browser, args, driver_path)
        ctor == <<Ev("local_ctor", "local", args, driver_path, <<>>, "")>>
        ap == _apply_timeouts("local", iw, plt, st, o.localFail)
    IN IF driver_path \notin dsk
         THEN Raised(LocalMissing(browser, driver_path), pre \o chk)
       ELSE IF o.local # "ok"
         THEN Raised(Exc(o.local), pre \o chk \o ctor)
       ELSE IF ap.raised # "none"
         THEN Raised(Exc(ap.raised), pre \o chk \o ctor \o ap.events)
       ELSE Returned(d, pre \o chk \o ctor \o ap.events)

\* a variant that tries the managed plan whatever prefer_manager says
create_driver_manager_first(browser0, headless, prefer_manager, iw, plt, st, dsk, o) ==
    LET browser == Lower(browser0)
        p == _local_driver_path(_find_repo_root, browser)
        resolve == <<Ev("_local_driver_path", "", <<>>, <<>>, <<>>, "")>>
    IN IF p = None THEN Raised(ValueError, resolve)
       ELSE
        LET driver_path == p[1]
            args == HeadlessArgs(browser, headless)
            mctor == <<Ev("manager_ctor", "managed", args, <<>>, <<>>, "")>>
            d == Session("managed", browser, args, <<>>)
            ap == _apply_timeouts("managed", iw, plt, st, o.managerFail)
            tried == IF o.manager # "ok" THEN o.manager ELSE ap.raised
            ttrace == resolve \o mctor \o (IF o.manager = "ok" THEN ap.events ELSE <<>>)
            warn == <<Ev("log.warning", "", <<>>, driver_path, <<>>, tried)>>
        IN IF tried = "none" THEN Returned(d, ttrace)
           ELSE IF ManagerHandlerCatches(tried)
             THEN LocalPlan(browser, driver_path, args, iw, plt, st, dsk, o, ttrace \o warn)
           ELSE Raised(Exc(tried), ttrace)

\* a variant that takes chrome for a kind it does not know
create_driver_default_chrome(browser0, headless, prefer_manager, iw, plt, st, dsk, o) ==
    LET browser == IF Lower(browser0) \in Browser THEN Lower(browser0) ELSE Chrome
        p == _local_driver_path(_find_repo_root, browser)
        resolve == <<Ev("_local_driver_path", "", <<>>, <<>>, <<>>, "")>>
    IN IF p = None THEN Raised(ValueError, resolve)
       ELSE
        LET driver_path == p[1]
            args == HeadlessArgs(browser, headless)
            mctor == <<Ev("manager_ctor", "managed", args, <<>>, <<>>, "")>>
            d == Session("managed", browser, args, <<>>)
            ap == _apply_timeouts("managed", iw, plt, st, o.managerFail)
            tried == IF o.manager # "ok" THEN o.manager ELSE ap.raised
            ttrace == resolve \o mctor \o (IF o.manager = "ok" THEN ap.events ELSE <<>>)
            warn == <<Ev("log.warning", "", <<>>, driver_path, <<>>, tried)>>
        IN IF ~prefer_manager
             THEN LocalPlan(browser, driver_path, args, iw, plt, st, dsk, o, resolve)
           ELSE IF tried = "none" THEN Returned(d, ttrace)
           ELSE IF ManagerHandlerCatches(tried)
             THEN LocalPlan(browser, driver_path, args, iw, plt, st, dsk, o, ttrace \o warn)
           ELSE Raised(Exc(tried), ttrace)

(***************************************************************************)
(* WebdriverFactory.create_driver.  o.manager, o.managerFail are the       *)
(* outcomes of the managed constructor and of the setters of its session.  *)
(***************************************************************************)
create_driver(browser0, headless, prefer_manager, iw, plt, st, dsk, o) ==
    LET browser == Lower(browser0)
        p == _local_driver_path(_find_repo_root, browser)
        resolve == <<Ev("_local_driver_path", "", <<>>, <<>>, <<>>, "")>>
    IN IF p = None THEN Raised(ValueError, resolve)
       ELSE
        LET driver_path == p[1]
            args == HeadlessArgs(browser, headless)
            mctor == <<Ev("manager_ctor", "managed", args, <<>>, <<>>, "")>>
            d == Session("managed", browser, args, <<>>)
            ap == _apply_timeouts("managed", iw, plt, st, o.managerFail)
            \* what the try block raised, "none" when it returned d
            tried == IF o.manager # "ok" THEN o.manager ELSE ap.raised
            ttrace == resolve \o mctor \o (IF o.manager = "ok" THEN ap.events ELSE <<>>)
            warn == <<Ev("log.warning", "", <<>>, driver_path, <<>>, tried)>>
        IN IF ~prefer_manager
             THEN LocalPlan(browser, driver_path, args, iw, plt, st, dsk, o, resolve)
           ELSE IF tried = "none" THEN Returned(d, ttrace)
           ELSE IF ManagerHandlerCatches(tried)
             THEN LocalPlan(browser, driver_path, args, iw, plt, st, dsk, o, ttrace \o warn)
           ELSE Raised(Exc(tried), ttrace)

\* a variant of the free function whose handler names NoSuchDriverException
\* only
make_driver_nosuch_only(browser0, headless, prefer_manager, iw, dsk, o) ==
    LET browser == Lower(browser0)
        p == webdrivers_local_driver_path(_find_repo_root, browser)
        resolve == <<Ev("_local_driver_path", "", <<>>, <<>>, <<>>, "")>>
    IN IF p = None THEN Raised(ValueError, resolve)
       ELSE
        LET driver_path == p[1]
            args == HeadlessArgs(browser, headless)
            mctor == <<Ev("manager_ctor", "managed", args, <<>>, <<>>, "")>>
            d == Session("managed", browser, args, <<>>)
            c1 == iw # 0
            sets == IF c1 THEN <<Ev("implicitly_wait", "managed", <<>>, <<>>, Some(iw), "")>>
                    ELSE <<>>
            mraised == IF c1 /\ o.managerFail.at = "implicitly_wait"
                         THEN o.managerFail.cls ELSE "none"
            tried == IF o.manager # "ok" THEN o.manager ELSE mraised
            ttrace == resolve \o mctor \o (IF o.manager = "ok" THEN sets ELSE <<>>)
            warn == <<Ev("log.warning", "", <<>>, driver_path, <<>>, tried)>>
            pre == IF prefer_manager THEN ttrace \o warn ELSE resolve
            chk == <<Ev("exists", "", <<>>, driver_path, <<>>, "")>>
            locald == Session("local", browser, args, driver_path)
            lctor == <<Ev("local_ctor", "local", args, driver_path, <<>>, "")>>
            lsets == IF c1 THEN <<Ev("implicitly_wait", "local", <<>>, <<>>, Some(iw), "")>>
                     ELSE <<>>
            lraised == IF c1 /\ o.localFail.at = "implicitly_wait"
                         THEN o.localFail.cls ELSE "none"
        IN IF prefer_manager /\ tried = "none" THEN Returned(d, ttrace)
           ELSE IF prefer_manager /\ ~ManagerHandlerNoBase(tried)
             THEN Raised(Exc(tried), ttrace)
           ELSE IF driver_path \notin dsk
             THEN Raised(LocalMissing(browser, driver_path), pre \o chk)
           ELSE IF o.local # "ok"
             THEN Raised(Exc(o.local), pre \o chk \o lctor)
           ELSE IF lraised # "none"
             THEN Raised(Exc(lraised), pre \o chk \o lctor \o lsets)
           ELSE Returned(locald, pre \o chk \o lctor \o lsets)

(***************************************************************************)
(* webdrivers.make_driver, the free-function variant: the same two plans,  *)
(* with only the implicit wait set on the session.                         *)
(***************************************************************************)
implicitly_wait_if(on, implicit_wait_s, fail) ==
    LET c1 == implicit_wait_s # 0
    IN [events |-> IF c1 THEN <<Ev("implicitly_wait", on, <<>>, <<>>, Some(implicit_wait_s), "")>>
                   ELSE <<>>,
        raised |-> IF c1 /\ fail.at = "implicitly_wait" THEN fail.cls ELSE "none"]

make_driver(browser0, headless, prefer_manager, iw, dsk, o) ==
    LET browser == Lower(browser0)
        p == webdrivers_local_driver_path(_find_repo_root, browser)
        resolve == <<Ev("_local_driver_path", "", <<>>, <<>>, <<>>, "")>>
    IN IF p = None THEN Raised(ValueError, resolve)
       ELSE
        LET driver_path == p[1]
            args == HeadlessArgs(browser, headless)
            mctor == <<Ev("manager_ctor", "managed", args, <<>>, <<>>, "")>>
            d == Session("managed", browser, args, <<>>)
            ap == implicitly_wait_if("managed", iw, o.managerFail)
            tried == IF o.manager # "ok" THEN o.manager ELSE ap.raised
            ttrace == resolve \o mctor \o (IF o.manager = "ok" THEN ap.events ELSE <<>>)
            warn == <<Ev("log.warning", "", <<>>, driver_path, <<>>, tried)>>
            pre == IF prefer_manager THEN ttrace \o warn ELSE resolve
            chk == <<Ev("exists", "", <<>>, driver_path, <<>>, "")>>
            locald == Session("local", browser, args, driver_path)
            lctor == <<Ev("local_ctor", "local", args, driver_path, <<>>, "")>>
            lap == implicitly_wait_if("local", iw, o.localFail)
        IN IF prefer_manager /\ tried = "none" THEN Returned(d, ttrace)
           ELSE IF prefer_manager /\ ~ManagerHandlerCatches(tried)
             THEN Raised(Exc(tried), ttrace)
           ELSE IF driver_path \notin dsk
             THEN Raised(LocalMissing(browser, driver_path), pre \o chk)
           ELSE IF o.local # "ok"
             THEN Raised(Exc(o.local), pre \o chk \o lctor)
           ELSE IF lap.raised # "none"
             THEN Raised(Exc(lap.raised), pre \o chk \o lctor \o lap.events)
           ELSE Returned(locald, pre \o chk \o lctor \o lap.events)

(***************************************************************************)
(* Configuration: the .properties parser and the process-wide cache.       *)
(***************************************************************************)
IsSpace(c) == c = " "

RECURSIVE LStrip(_)
LStrip(s) ==
    IF s # <<>> /\ IsSpace(s[1]) THEN LStrip(Tail(s)) ELSE s

RECURSIVE RStrip(_)
RStrip(s) ==
    IF s # <<>> /\ IsSpace(s[Len(s)]) THEN RStrip(SubSeq(s, 1, Len(s) - 1)) ELSE s

\* str.strip()
Strip(s) == RStrip(LStrip(s))

\* the index of the first "=" of a line that has one
FirstEq(line) == CHOOSE i \in 1..Len(line) :
                    line[i] = "=" /\ \A j \in 1..(i - 1) : line[j] # "="

\* data[k] = v
Put(data, k, v) ==
    [x \in (DOMAIN data) \cup {k} |-> IF x = k THEN v ELSE data[x]]

\* a variant that splits a line at its last "="
ReadLine_rsplit(data, raw) ==
    LET line == Strip(raw)
        i == CHOOSE n \in 1..Len(line) :
                 line[n] = "=" /\ \A j \in (n + 1)..Len(line) : line[j] # "="
    IN IF line = <<>> \/ line[1] = "#" \/ line[1] = ";" THEN data
       ELSE IF \A n \in 1..Len(line) : line[n] # "=" THEN data
       ELSE Put(data, Strip(SubSeq(line, 1, i - 1)),
                      Strip(SubSeq(line, i + 1, Len(line))))

\* one iteration of the loop of _read_properties
ReadLine(data, raw) ==
    LET line == Strip(raw)
        i == FirstEq(line)
    IN IF line = <<>> \/ line[1] = "#" \/ line[1] = ";" THEN data
       ELSE IF \A n \in 1..Len(line) : line[n] # "=" THEN data
       ELSE Put(data, Strip(SubSeq(line, 1, i - 1)),
                      Strip(SubSeq(line, i + 1, Len(line))))

RECURSIVE ReadLines(_, _)
ReadLines(data, lines) ==
    IF lines = <<>> THEN data
    ELSE ReadLines(ReadLine(data, Head(lines)), Tail(lines))

\* str.splitlines(): the lines of a text, without their "\n"; a text that
\* ends in "\n" has no empty last line
RECURSIVE splitlines(_)
splitlines(text) ==
    IF text = <<>> THEN <<>>
    ELSE IF \A n \in 1..Len(text) : text[n] # "\n" THEN <<text>>
    ELSE LET i == CHOOSE n \in 1..Len(text) :
                      text[n] = "\n" /\ \A j \in 1..(n - 1) : text[j] # "\n"
         IN <<SubSeq(text, 1, i - 1)>> \o splitlines(SubSeq(text, i + 1, Len(text)))

\* {} of Python
EmptyMap == [x \in {} |-> <<>>]

\* _read_properties on the file f (None when it does not exist)
_read_properties(f) ==
    IF f = None THEN [raised |-> "FileNotFoundError", data |-> EmptyMap]
    ELSE [raised |-> "none", data |-> ReadLines(EmptyMap, f[1])]

\* a variant that tests the cache for truth, not for None
load_parametrization_falsy(cache, f, force_reload) ==
    IF cache = None \/ cache[1] = EmptyMap \/ force_reload
      THEN LET r == _read_properties(f)
           IN IF r.raised # "none"
                THEN [cache |-> cache, status |-> "raised", exc |-> r.raised, map |-> None]
                ELSE [cache |-> Some(r.data), status |-> "returned", exc |-> "none",
                      map |-> Some(r.data)]
      ELSE [cache |-> cache, status |-> "returned", exc |-> "none", map |-> cache]

\* a variant that drops the cache before it reads
load_parametrization_clearing(cache, f, force_reload) ==
    IF cache = None \/ force_reload
      THEN LET r == _read_properties(f)
           IN IF r.raised # "none"
                THEN [cache |-> None, status |-> "raised", exc |-> r.raised, map |-> None]
                ELSE [cache |-> Some(r.data), status |-> "returned", exc |-> "none",
                      map |-> Some(r.data)]
      ELSE [cache |-> cache, status |-> "returned", exc |-> "none", map |-> cache]

(***************************************************************************)
(* load_parametrization: the cache after the call and what the call        *)
(* returns or raises.                                                      *)
(***************************************************************************)
load_parametrization(cache, f, force_reload) ==
    IF cache = None \/ force_reload
      THEN LET r == _read_properties(f)
           IN IF r.raised # "none"
                THEN [cache |-> cache, status |-> "raised", exc |-> r.raised, map |-> None]
                ELSE [cache |-> Some(r.data), status |-> "returned", exc |-> "none",
                      map |-> Some(r.data)]
      ELSE [cache |-> cache, status |-> "returned", exc |-> "none", map |-> cache]

(***************************************************************************)
(* The environment overlay.                                                *)
(***************************************************************************)
\* internal key -> environment variable, in the order of the dict
mapping ==
    << << <<"browser">>, "BROWSER">>,
       << <<"url">>, "BASE_URL">>,
       << <<"headless">>, "HEADLESS">>,
       << <<"prefer_manager">>, "SELENIUM_PREFER_MANAGER">>,
       << <<"timeout">>, "TIMEOUT">>,
       << <<"page_load_timeout">>, "PAGE_LOAD_TIMEOUT">>,
       << <<"script_timeout">>, "SCRIPT_TIMEOUT">>,
       << <<"window">>, "WINDOW">>,
       << <<"se_proxy">>, "SE_PROXY">>,
       << <<"se_cache_path">>, "SE_CACHE_PATH">>,
       << <<"se_offline">>, "SE_OFFLINE">> >>

EnvNames == {"CONFIG_PRECEDENCE"} \cup {mapping[i][2] : i \in 1..Len(mapping)}

\* os.getenv(name, default)
getenv(e, name, default) == IF e[name] = None THEN default ELSE e[name]

RECURSIVE MergeAny(_, _, _)
MergeAny(merged, e, i) ==
    IF i > Len(mapping) THEN merged
    ELSE LET val == getenv(e, mapping[i][2], None)
         IN MergeAny(IF val # None THEN Put(merged, mapping[i][1], val[1]) ELSE merged,
                     e, i + 1)

\* the loop over mapping.items(), from entry i on
RECURSIVE Merge(_, _, _)
Merge(merged, e, i) ==
    IF i > Len(mapping) THEN merged
    ELSE LET val == getenv(e, mapping[i][2], None)
         IN Merge(IF val # None /\ val[1] # <<>>
                    THEN Put(merged, mapping[i][1], val[1]) ELSE merged,
                  e, i + 1)

\* a variant that also takes a variable set to ""
_overlay_env_any(params, e) ==
    LET precedence == Lower(Strip(getenv(e, "CONFIG_PRECEDENCE", Some(<<"file">>))[1]))
    IN IF precedence # <<"env">> THEN params ELSE MergeAny(params, e, 1)

_overlay_env(params, e) ==
    LET precedence == Lower(Strip(getenv(e, "CONFIG_PRECEDENCE", Some(<<"file">>))[1]))
    IN IF precedence # <<"env">> THEN params ELSE Merge(params, e, 1)

\* the dict passed to _overlay_env, after the call, had the loop written
\* into it
_overlay_env_argument_inplace(params, e) ==
    LET precedence == Lower(Strip(getenv(e, "CONFIG_PRECEDENCE", Some(<<"file">>))[1]))
    IN IF precedence # <<"env">> THEN params ELSE Merge(params, e, 1)

\* the dict passed to _overlay_env, after the call: the loop writes into
\* merged, a copy (merged = dict(params)), so the argument is as it was
_overlay_env_argument(params, e) == params

(***************************************************************************)
(* create_from_properties: reading the map.                                *)
(***************************************************************************)
\* params.get(key): None or Some(value)
get(params, key) == IF key \in DOMAIN params THEN Some(params[key]) ELSE None

\* params.get(key) or ""
get_or_empty(params, key) ==
    IF key \in DOMAIN params THEN params[key] ELSE <<>>

_as_bool(v, default) ==
    IF v = None THEN default
    ELSE Lower(Strip(v[1])) \in {<<"1">>, <<"true">>, <<"yes">>, <<"y">>, <<"on">>}

\* the numerals of the model and the numbers float() makes of them
Numeral == ("0" :> 0) @@ ("5" :> 5) @@ ("30" :> 30)

\* float(t): Some(number), or None where float raises ValueError; float
\* itself ignores blanks around the numeral
float(t) ==
    LET n == Strip(t)
    IN IF Len(n) = 1 /\ n[1] \in DOMAIN Numeral THEN Some(Numeral[n[1]]) ELSE None

\* a variant that takes the default only for a key that is not there
_as_float_absent_only(v, default) ==
    IF v = None THEN [raised |-> FALSE, value |-> default]
    ELSE IF Strip(v[1]) = <<>> THEN [raised |-> FALSE, value |-> None]
    ELSE [raised |-> float(v[1]) = None, value |-> float(v[1])]

\* _as_float: the value, or raised where float raises ValueError
_as_float(v, default) ==
    IF v = None \/ Strip(v[1]) = <<>> THEN [raised |-> FALSE, value |-> default]
    ELSE [raised |-> float(v[1]) = None, value |-> float(v[1])]

(***************************************************************************)
(* The window value is looked into character by character, so it is        *)
(* written one character per symbol: "8x6" is <<"8", "x", "6">>.           *)
(***************************************************************************)
Digits == {"0", "1", "2", "3", "4", "5", "6", "7", "8", "9"}

\* str.isdigit()
isdigit(t) == t # <<>> /\ \A i \in 1..Len(t) : t[i] \in Digits

DigitValue(c) ==
    CASE c = "0" -> 0 [] c = "1" -> 1 [] c = "2" -> 2 [] c = "3" -> 3 [] c = "4" -> 4
      [] c = "5" -> 5 [] c = "6" -> 6 [] c = "7" -> 7 [] c = "8" -> 8 [] c = "9" -> 9

\* int(t) of a digit string
RECURSIVE int(_)
int(t) == IF t = <<>> THEN 0
          ELSE 10 * int(SubSeq(t, 1, Len(t) - 1)) + DigitValue(t[Len(t)])

maximize == <<"m", "a", "x", "i", "m", "i", "z", "e">>

\* a variant that sizes the window when the width alone is a number
window_calls_width_only(on, value) ==
    LET window == Lower(Strip(value))
        xs == {i \in 1..Len(window) : window[i] = "x"}
        i == CHOOSE n \in xs : \A m \in xs : n <= m
        w == SubSeq(window, 1, i - 1)
        h == SubSeq(window, i + 1, Len(window))
    IN IF window = maximize
         THEN <<Ev("maximize_window", on, <<>>, <<>>, <<>>, "")>>
       ELSE IF xs # {} /\ isdigit(w)
         THEN <<Ev("set_window_size", on, <<int(w), IF isdigit(h) THEN int(h) ELSE 0>>,
                   <<>>, <<>>, "")>>
       ELSE <<>>

\* lines 191-197: the calls made on the session `on' for the window value
window_calls(on, value) ==
    LET window == Lower(Strip(value))
        xs == {i \in 1..Len(window) : window[i] = "x"}
        i == CHOOSE n \in xs : \A m \in xs : n <= m
        w == SubSeq(window, 1, i - 1)
        h == SubSeq(window, i + 1, Len(window))
    IN IF window = maximize
         THEN <<Ev("maximize_window", on, <<>>, <<>>, <<>>, "")>>
       ELSE IF xs # {} /\ isdigit(w) /\ isdigit(h)
         THEN <<Ev("set_window_size", on, <<int(w), int(h)>>, <<>>, <<>>, "")>>
       ELSE <<>>

ConfigMissing ==
    [type |-> "FileNotFoundError",
     fmt |-> "No existe el fichero de parametrización: {path}",
     browser |-> <<>>, driver_path |-> <<>>]

FloatError ==
    [type |-> "ValueError", fmt |-> "could not convert string to float",
     browser |-> <<>>, driver_path |-> <<>>]

\* os.environ[name] = params[key] when params.get(key) is truthy
export(e, params, key, name) ==
    IF get_or_empty(params, key) # <<>>
      THEN [e EXCEPT ![name] = Some(params[key])] ELSE e

\* the arguments an entry point passes to the factory
Passed(browser, headless, prefer_manager, plt, st) ==
    [browser |-> browser, headless |-> headless, prefer_manager |-> prefer_manager,
     implicit_wait_s |-> 0, page_load_timeout_s |-> plt, script_timeout_s |-> st]

\* what a call of the two entry points leaves: the cache and the
\* environment after it, the maps it worked with, the arguments it passed
\* to the factory and what the factory came to (None when it did not get
\* there), its own result
Outcome(cache, environ, loaded, params, passed, created, res) ==
    [cache |-> cache, environ |-> environ, loaded |-> loaded, params |-> params,
     passed |-> passed, created |-> created, res |-> res]

\* a variant that passes the configured browser on as it is
create_from_properties_strict(cache, f, e, dsk, o) ==
    LET L == load_parametrization(cache, f, FALSE)
    IN IF L.status = "raised"
         THEN Outcome(L.cache, e, None, None, None, None, Raised(ConfigMissing, <<>>))
       ELSE
        LET loaded == L.map[1]
            params == _overlay_env(loaded, e)
            kept == Some(_overlay_env_argument(loaded, e))
            b == get_or_empty(params, <<"browser">>)
            browser == Lower(IF b = <<>> THEN Chrome ELSE b)
            headless == _as_bool(get(params, <<"headless">>), FALSE)
            prefer_manager == _as_bool(get(params, <<"prefer_manager">>), TRUE)
            timeout_fallback == _as_float(get(params, <<"timeout">>), None)
            page_load_timeout ==
                _as_float(get(params, <<"page_load_timeout">>), timeout_fallback.value)
            script_timeout ==
                _as_float(get(params, <<"script_timeout">>), timeout_fallback.value)
            environ == export(export(export(e, params, <<"se_proxy">>, "SE_PROXY"),
                                     params, <<"se_cache_path">>, "SE_CACHE_PATH"),
                              params, <<"se_offline">>, "SE_OFFLINE")
            passed == Passed(browser, headless, prefer_manager,
                             page_load_timeout.value, script_timeout.value)
            d == create_driver(browser, headless, prefer_manager, 0,
                               page_load_timeout.value, script_timeout.value, dsk, o)
            calls == window_calls(d.session[1].plan, get_or_empty(params, <<"window">>))
        IN IF timeout_fallback.raised \/ page_load_timeout.raised \/ script_timeout.raised
             THEN Outcome(kept, e, Some(loaded), Some(params), None, None,
                          Raised(FloatError, <<>>))
           ELSE IF d.status = "raised"
             THEN Outcome(kept, environ, Some(loaded), Some(params), Some(passed),
                          Some(d), d)
           ELSE IF calls # <<>> /\ o.window # "ok"
             THEN Outcome(kept, environ, Some(loaded), Some(params), Some(passed),
                          Some(d), Raised(Exc(o.window), d.trace \o calls))
           ELSE Outcome(kept, environ, Some(loaded), Some(params), Some(passed),
                        Some(d), Returned(d.session[1], d.trace \o calls))

(***************************************************************************)
(* WebdriverFactory.create_from_properties, with the cache, the file, the  *)
(* environment and the disk it finds.  o.window is the outcome of the      *)
(* window call, if one is made.                                            *)
(***************************************************************************)
create_from_properties(cache, f, e, dsk, o) ==
    LET L == load_parametrization(cache, f, FALSE)
    IN IF L.status = "raised"
         THEN Outcome(L.cache, e, None, None, None, None, Raised(ConfigMissing, <<>>))
       ELSE
        LET loaded == L.map[1]
            params == _overlay_env(loaded, e)
            kept == Some(_overlay_env_argument(loaded, e))
            b == get_or_empty(params, <<"browser">>)
            browser0 == Lower(IF b = <<>> THEN Chrome ELSE b)
            browser == IF browser0 \in Browser THEN browser0 ELSE Chrome
            headless == _as_bool(get(params, <<"headless">>), FALSE)
            prefer_manager == _as_bool(get(params, <<"prefer_manager">>), TRUE)
            timeout_fallback == _as_float(get(params, <<"timeout">>), None)
            page_load_timeout ==
                _as_float(get(params, <<"page_load_timeout">>), timeout_fallback.value)
            script_timeout ==
                _as_float(get(params, <<"script_timeout">>), timeout_fallback.value)
            environ == export(export(export(e, params, <<"se_proxy">>, "SE_PROXY"),
                                     params, <<"se_cache_path">>, "SE_CACHE_PATH"),
                              params, <<"se_offline">>, "SE_OFFLINE")
            passed == Passed(browser, headless, prefer_manager,
                             page_load_timeout.value, script_timeout.value)
            d == create_driver(browser, headless, prefer_manager, 0,
                               page_load_timeout.value, script_timeout.value, dsk, o)
            calls == window_calls(d.session[1].plan, get_or_empty(params, <<"window">>))
        IN IF timeout_fallback.raised \/ page_load_timeout.raised \/ script_timeout.raised
             THEN Outcome(kept, e, Some(loaded), Some(params), None, None,
                          Raised(FloatError, <<>>))
           ELSE IF d.status = "raised"
             THEN Outcome(kept, environ, Some(loaded), Some(params), Some(passed),
                          Some(d), d)
           ELSE IF calls # <<>> /\ o.window # "ok"
             THEN Outcome(kept, environ, Some(loaded), Some(params), Some(passed),
                          Some(d), Raised(Exc(o.window), d.trace \o calls))
           ELSE Outcome(kept, environ, Some(loaded), Some(params), Some(passed),
                        Some(d), Returned(d.session[1], d.trace \o calls))

(***************************************************************************)
(* webdrivers.make_driver_from_env(default).                               *)
(***************************************************************************)
make_driver_from_env(default, e, dsk, o) ==
    LET browser0 == Lower(getenv(e, "BROWSER", Some(default))[1])
        browser == IF browser0 \in Browser THEN browser0 ELSE default
        prefer_manager ==
            getenv(e, "SELENIUM_PREFER_MANAGER", Some(<<"1">>))[1]
                \notin {<<"0">>, <<"false">>, <<"False">>}
        headless ==
            getenv(e, "HEADLESS", Some(<<"0">>))[1] \in {<<"1">>, <<"true">>, <<"True">>}
        d == make_driver(browser, headless, prefer_manager, 0, dsk, o)
    IN Outcome(None, e, None, None,
               Some(Passed(browser, headless, prefer_manager, None, None)), Some(d), d)

(***************************************************************************)
(* Explicit waits.  Time is counted in tenths of a second.                 *)
(***************************************************************************)
\* DEFAULT_POLL = 0.2 s
DEFAULT_POLL == 2

\* what one evaluation of a condition gives: a value ("" when it is falsy)
\* or an exception
Evaluations ==
    { [value |-> "element", raise |-> ""],
      [value |-> "", raise |-> ""],
      [value |-> "", raise |-> "NoSuchElementException"],
      [value |-> "", raise |-> "InvalidSelectorException"] }

\* a variant that makes the wait ignore every exception of the condition
wait_ignore_all(timeout) ==
    [timeout |-> timeout, poll |-> DEFAULT_POLL,
     ignored |-> {e.raise : e \in Evaluations}]

\* AuxiliaryMethods.wait: WebDriverWait(driver, timeout, poll_frequency);
\* the exceptions ignored are the default of WebDriverWait
wait(timeout) ==
    [timeout |-> timeout, poll |-> DEFAULT_POLL,
     ignored |-> {"NoSuchElementException"}]

Polling == [status |-> "polling", value |-> "", exc |-> ""]

(***************************************************************************)
(* One turn of the polling loop of until: the condition is evaluated with  *)
(* outcome e at time now; the loop returns the value, propagates the       *)
(* exception, or sleeps one poll interval and then times out or goes on.   *)
(***************************************************************************)
until_step(w, now, e) ==
    IF e.raise = "" /\ e.value # ""
      THEN [now |-> now, u |-> [status |-> "returned", value |-> e.value, exc |-> ""]]
    ELSE IF e.raise # "" /\ e.raise \notin w.ignored
      THEN [now |-> now, u |-> [status |-> "raised", value |-> "", exc |-> e.raise]]
    ELSE IF now + w.poll > w.timeout
      THEN [now |-> now + w.poll,
            u |-> [status |-> "raised", value |-> "", exc |-> "TimeoutException"]]
    ELSE [now |-> now + w.poll, u |-> Polling]

\* a variant that turns every exception into False
exists_catch_all(u) ==
    IF u.status = "returned" THEN [status |-> "returned", value |-> "True", exc |-> ""]
    ELSE IF u.status = "raised" THEN [status |-> "returned", value |-> "False", exc |-> ""]
    ELSE u

\* AuxiliaryMethods.exists, given what wait_present came to
exists(u) ==
    IF u.status = "returned" THEN [status |-> "returned", value |-> "True", exc |-> ""]
    ELSE IF u.status = "raised" /\ u.exc = "TimeoutException"
      THEN [status |-> "returned", value |-> "False", exc |-> ""]
    ELSE u

\* the helper `call' around the wait
helper(call, u) == IF call = "exists" THEN exists(u) ELSE u

\* the wait_* helper each helper calls
wait_helper(call) ==
    CASE call = "click" -> "wait_clickable"
      [] call = "type_text" -> "wait_visible"
      [] call = "get_text" -> "wait_visible"
      [] call = "exists" -> "wait_present"
      [] OTHER -> call

\* the expected condition (EC.*) each wait_* helper waits for
condition(waiter) ==
    CASE waiter = "wait_present" -> "presence_of_element_located"
      [] waiter = "wait_visible" -> "visibility_of_element_located"
      [] waiter = "wait_clickable" -> "element_to_be_clickable"

\* a call on the element a wait returned
Act(op, el, text) == [op |-> op, el |-> el, text |-> text]

Done(acts) == [res |-> [status |-> "returned", value |-> "None", exc |-> ""], acts |-> acts]
Failed(acts) ==
    [res |-> [status |-> "raised", value |-> "", exc |-> "ElementNotInteractableException"],
     acts |-> acts]

\* AuxiliaryMethods.click, given what wait_clickable came to; a.fail names
\* the call on the element that raises
click(u, a) ==
    IF u.status # "returned" THEN [res |-> u, acts |-> <<>>]
    ELSE LET c == <<Act("click", u.value, <<>>)>>
         IN IF a.fail = "click" THEN Failed(c) ELSE Done(c)

\* a variant that clears whatever clear says
type_text_clearing(u, a) ==
    IF u.status # "returned" THEN [res |-> u, acts |-> <<>>]
    ELSE LET c == <<Act("clear", u.value, <<>>)>>
             k == <<Act("send_keys", u.value, a.text)>>
         IN IF a.fail = "clear" THEN Failed(c)
            ELSE IF a.fail = "send_keys" THEN Failed(c \o k)
            ELSE Done(c \o k)

\* AuxiliaryMethods.type_text, given what wait_visible came to
type_text(u, a) ==
    IF u.status # "returned" THEN [res |-> u, acts |-> <<>>]
    ELSE LET c == IF a.clear THEN <<Act("clear", u.value, <<>>)>> ELSE <<>>
             k == <<Act("send_keys", u.value, a.text)>>
         IN IF a.clear /\ a.fail = "clear" THEN Failed(c)
            ELSE IF a.fail = "send_keys" THEN Failed(c \o k)
            ELSE Done(c \o k)

\* AuxiliaryMethods.get_text, given what wait_visible came to
get_text(u) ==
    IF u.status # "returned" THEN [res |-> u, acts |-> <<>>]
    ELSE [res |-> [status |-> "returned", value |-> "el.text", exc |-> ""], acts |-> <<>>]

\* what the helper `call' does once its wait came to u
finish(call, u, a) ==
    CASE call = "click" -> click(u, a)
      [] call = "type_text" -> type_text(u, a)
      [] call = "get_text" -> get_text(u)
      [] OTHER -> [res |-> helper(call, u), acts |-> <<>>]

(***************************************************************************)
(* Inputs of the provisioning model.                                       *)
(***************************************************************************)
BrowserArgs == Browser \cup {<<"Chrome">>, <<"safari">>}
ImplicitWaits == {0, 5}
Timeouts == {None, Some(30)}
CtorOutcomes == {"ok", "NoSuchDriverException", "WebDriverException", "OSError"}
SetterFails ==
    {NoFail,
     [at |-> "implicitly_wait", cls |-> "OSError"],
     [at |-> "set_page_load_timeout", cls |-> "InvalidArgumentException"],
     [at |-> "set_script_timeout", cls |-> "WebDriverException"]}
Outcomes ==
    [manager : CtorOutcomes, managerFail : SetterFails,
     local : CtorOutcomes, localFail : SetterFails]

\* the variables of the four parts of the model, and of the other parts
provVars == <<disk, drv>>
cfgVars == <<file, param_cache, lastRead, ld>>
ovVars == <<env, ov>>
waitVars == <<wt>>
pureVars == <<rs, ps>>
fpVars == <<fp>>
notProv == <<cfgVars, ovVars, waitVars, pureVars, fpVars>>
notCfg == <<provVars, ovVars, waitVars, pureVars, fpVars>>
notOv == <<provVars, cfgVars, waitVars, pureVars, fpVars>>
notWait == <<provVars, cfgVars, ovVars, pureVars, fpVars>>

\* make_driver calls one setter only
MakeOutcomes == {o \in Outcomes : /\ o.managerFail.at \in {"none", "implicitly_wait"}
                                  /\ o.localFail.at \in {"none", "implicitly_wait"}}

Idle == [call |-> "none"]

\* between two calls the environment installs or removes a local driver
InstallDriver(path) ==
    /\ drv = Idle
    /\ path \notin disk
    /\ disk' = disk \cup {path}
    /\ UNCHANGED <<drv, notProv>>

RemoveDriver(path) ==
    /\ drv = Idle
    /\ path \in disk
    /\ disk' = disk \ {path}
    /\ UNCHANGED <<drv, notProv>>

\* one call of WebdriverFactory.create_driver
CreateDriver(browser, headless, prefer_manager, iw, plt, st, o) ==
    /\ drv = Idle
    /\ drv' = [call |-> "create_driver",
               browser |-> browser, headless |-> headless,
               prefer_manager |-> prefer_manager,
               implicit_wait_s |-> iw, page_load_timeout_s |-> plt,
               script_timeout_s |-> st, o |-> o,
               res |-> create_driver(browser, headless, prefer_manager,
                                     iw, plt, st, disk, o)]
    /\ UNCHANGED <<disk, notProv>>

\* one call of webdrivers.make_driver
MakeDriver(browser, headless, prefer_manager, iw, o) ==
    /\ drv = Idle
    /\ drv' = [call |-> "make_driver",
               browser |-> browser, headless |-> headless,
               prefer_manager |-> prefer_manager,
               implicit_wait_s |-> iw, page_load_timeout_s |-> None,
               script_timeout_s |-> None, o |-> o,
               res |-> make_driver(browser, headless, prefer_manager, iw, disk, o)]
    /\ UNCHANGED <<disk, notProv>>

\* the caller is done with the last call: it quits the session it got
\* (BasePage.quit), or has seen the exception
Quit ==
    /\ drv # Idle
    /\ drv' = Idle
    /\ UNCHANGED <<disk, notProv>>

(***************************************************************************)
(* The path function on its own.                                           *)
(***************************************************************************)
Roots == {<<"repo">>, <<"C:", "ci", "actual-tests">>}
KindArgs == Browser \cup {<<"Chrome">>, <<"safari">>, <<>>}
PathFunctions == {"WebdriverFactory._local_driver_path", "webdrivers._local_driver_path"}

\* one call of _local_driver_path, of either module
Resolve(fn, root, browser) ==
    /\ rs' = [call |-> fn, root |-> root, browser |-> browser,
              res |-> IF fn = "webdrivers._local_driver_path"
                        THEN webdrivers_local_driver_path(root, browser)
                        ELSE _local_driver_path(root, browser)]
    /\ UNCHANGED <<provVars, cfgVars, ovVars, waitVars, fpVars, ps>>

(***************************************************************************)
(* The parser on its own: every text up to a length over the characters    *)
(* the parser tells apart, and one word.                                   *)
(***************************************************************************)
Alphabet == {" ", "#", ";", "=", "\n", "k"}

\* the longest text, in symbols
MaxTextLen == 6

Texts == UNION {[1..n -> Alphabet] : n \in 0..MaxTextLen}

\* one call of _read_properties on a file that holds text
ReadProperties(text) ==
    /\ ps = Idle
    /\ ps' = [call |-> "_read_properties", text |-> text,
              res |-> _read_properties(Some(splitlines(text)))]
    /\ UNCHANGED <<provVars, cfgVars, ovVars, waitVars, fpVars, rs>>

\* load_parametrization has the map
ReadReturn ==
    /\ ps # Idle
    /\ ps' = Idle
    /\ UNCHANGED <<provVars, cfgVars, ovVars, waitVars, fpVars, rs>>

(***************************************************************************)
(* Inputs of the configuration model.                                      *)
(***************************************************************************)
Files ==
    { << <<"browser", "=", "chrome">> >>,
      << <<"#", " ", "ci">>,
         <<" ", "browser", " ", "=", " ", "firefox", " ">>,
         <<"window", "=", "maximize">> >>,
      <<>>,
      << <<";", "browser", "=", "edge">>, <<>> >>,
      << <<"browser", "=", "chrome">>,
         <<"url", "=", "http://x/?a", "=", "1">>,
         <<"noequals">>,
         <<"browser", "=", "edge">> >>,
      << <<"browser", "=", "chrome">>,
         <<"headless", "=", "true">>,
         <<"se_proxy", "=", "http://proxy">> >>,
      << <<"browser", "=">>, <<"timeout", "=", "30">> >> }

ParamMaps == {_read_properties(Some(f)).data : f \in Files}

\* the values the environment gives a variable
EnvValues(name) ==
    IF name = "CONFIG_PRECEDENCE"
      THEN {<<"env">>, <<" ", "ENV", " ">>, <<"file">>, <<>>}
    ELSE IF name = "BROWSER" THEN {<<>>, <<"firefox">>}
    ELSE {<<"1">>}

\* at most this many of the mapped variables are set at a time
MaxEnvSet == 2

MappedSet(e) == {n \in EnvNames \ {"CONFIG_PRECEDENCE"} : e[n] # None}

\* the file is written, or rewritten, by its owner
WriteFile(content) ==
    /\ file # Some(content)
    /\ file' = Some(content)
    /\ UNCHANGED <<param_cache, lastRead, ld, notCfg>>

DeleteFile ==
    /\ file # None
    /\ file' = None
    /\ UNCHANGED <<param_cache, lastRead, ld, notCfg>>

\* one call of WebdriverFactory.load_parametrization
Load(force_reload) ==
    LET r == load_parametrization(param_cache, file, force_reload)
    IN /\ param_cache' = r.cache
       /\ ld' = [call |-> "load_parametrization", force_reload |-> force_reload,
                 file |-> file, cache |-> param_cache, res |-> r]
       /\ lastRead' = IF (param_cache = None \/ force_reload) /\ file # None
                        THEN file ELSE lastRead
       /\ UNCHANGED <<file, notCfg>>

\* between two calls of _overlay_env the environment changes
SetEnv(name, value) ==
    /\ ov = Idle
    /\ env[name] # Some(value)
    /\ Cardinality(MappedSet(env) \cup ({name} \ {"CONFIG_PRECEDENCE"})) <= MaxEnvSet
    /\ env' = [env EXCEPT ![name] = Some(value)]
    /\ UNCHANGED <<ov, notOv>>

UnsetEnv(name) ==
    /\ ov = Idle
    /\ env[name] # None
    /\ env' = [env EXCEPT ![name] = None]
    /\ UNCHANGED <<ov, notOv>>

\* one call of WebdriverFactory._overlay_env
OverlayEnv(params) ==
    /\ ov = Idle
    /\ ov' = [call |-> "_overlay_env", params |-> params,
              res |-> _overlay_env(params, env)]
    /\ UNCHANGED <<env, notOv>>

\* create_from_properties goes on with the map it got
OverlayReturn ==
    /\ ov # Idle
    /\ ov' = Idle
    /\ UNCHANGED <<env, notOv>>

(***************************************************************************)
(* Inputs of the wait model.                                               *)
(***************************************************************************)
WaitHelpers == {"wait_present", "wait_visible", "wait_clickable", "exists",
                "click", "type_text", "get_text"}

NoArgs == [clear |-> FALSE, text |-> <<>>, fail |-> "none"]

\* the arguments of a helper other than locator and timeout, and the call
\* on the element that raises, if any
HelperArgs(call) ==
    IF call = "click" THEN [clear : {FALSE}, text : {<<>>}, fail : {"none", "click"}]
    ELSE IF call = "type_text"
      THEN [clear : BOOLEAN, text : {<<"hello">>, <<>>}, fail : {"none", "clear", "send_keys"}]
    ELSE {NoArgs}

\* the longest timeout a helper is called with
MaxTimeout == 6

WaitTimeouts == {0, 3, MaxTimeout}

\* a helper is called: the wait is built and the loop is entered
StartWait(call, timeout, a) ==
    /\ wt = Idle
    /\ wt' = [call |-> call, cond |-> condition(wait_helper(call)), a |-> a,
              w |-> wait(timeout), now |-> 0, outs |-> <<>>,
              u |-> Polling, res |-> Polling, acts |-> <<>>]
    /\ UNCHANGED notWait

\* one turn of the loop; the helper finishes with the loop
Poll(e) ==
    /\ wt # Idle
    /\ wt.u.status = "polling"
    /\ LET r == until_step(wt.w, wt.now, e)
           f == finish(wt.call, r.u, wt.a)
       IN wt' = [wt EXCEPT !.now = r.now, !.outs = Append(@, e),
                           !.u = r.u, !.res = f.res, !.acts = f.acts]
    /\ UNCHANGED notWait

\* the caller has the result of the helper
WaitReturn ==
    /\ wt # Idle
    /\ wt.u.status # "polling"
    /\ wt' = Idle
    /\ UNCHANGED notWait

(***************************************************************************)
(* Inputs of the model of the two entry points that read the               *)
(* configuration themselves.                                               *)
(***************************************************************************)
PropFiles ==
    { << <<"browser", "=", "chrome">>,
         <<"headless", "=", "yes">>,
         <<"window", "=", "8", "x">> >>,
      << <<"browser", "=", "safari">>,
         <<"window", "=", "m", "a", "x", "i", "m", "i", "z", "e">> >>,
      << <<"browser", "=", "Firefox">>,
         <<"headless", "=", "True">>,
         <<"window", "=", "8", "0", "x", "6", "0">> >>,
      << <<"browser", "=">>,
         <<"timeout", "=", "30">>,
         <<"window", "=", "8", "X", "6">> >>,
      << <<"page_load_timeout", "=", "5">>,
         <<"timeout", "=", "30">>,
         <<"prefer_manager", "=", "false">>,
         <<"window", "=", "x", "6">> >>,
      << <<"script_timeout", "=", "5">>,
         <<"page_load_timeout", "=">>,
         <<"window", "=", "1", "x", "2", "x", "3">> >>,
      << <<"page_load_timeout", "=">>,
         <<"timeout", "=", "30">>,
         <<"window", "=", "a", "x", "b">> >>,
      << <<"timeout", "=", "abc">> >>,
      << <<"se_proxy", "=", "http://proxy">>,
         <<"proxy", "=", "p">>,
         <<"custom", "=", "1">>,
         <<"prefer_manager", "=">>,
         <<"window", "=", "M", "a", "x", "i", "m", "i", "z", "e">> >>,
      <<>> }

FpEnvNames == {"CONFIG_PRECEDENCE", "BROWSER", "WINDOW", "PAGE_LOAD_TIMEOUT", "SE_PROXY"}

FpEnvValues(name) ==
    IF name = "CONFIG_PRECEDENCE" THEN {<<"env">>}
    ELSE IF name = "BROWSER" THEN {<<"safari">>, <<"Firefox">>}
    ELSE IF name = "WINDOW" THEN {<<" ", "m", "a", "x", "i", "m", "i", "z", "e", " ">>}
    ELSE IF name = "PAGE_LOAD_TIMEOUT" THEN {<<" ">>}
    ELSE {<<"http://envproxy">>}

FpOutcomes ==
    [manager : {"ok", "WebDriverException"},
     managerFail : {NoFail,
                    [at |-> "set_page_load_timeout", cls |-> "InvalidArgumentException"]},
     local : {"ok", "WebDriverException"},
     localFail : {NoFail},
     window : {"ok", "WebDriverException"}]

\* make_driver_from_env makes no window call and sets no timeout
FromEnvOutcomes ==
    {o \in FpOutcomes : o.managerFail = NoFail /\ o.local = "ok" /\ o.window = "ok"}

\* one call of WebdriverFactory.create_from_properties
FromProperties(o) ==
    /\ fp = Idle
    /\ LET r == create_from_properties(param_cache, file, env, disk, o)
       IN /\ fp' = [call |-> "create_from_properties", default |-> Chrome, o |-> o,
                    cache |-> param_cache, env |-> env, r |-> r]
          /\ param_cache' = r.cache
          /\ env' = r.environ
          /\ lastRead' = IF param_cache = None /\ file # None THEN file ELSE lastRead
    /\ UNCHANGED <<provVars, file, ld, ov, waitVars, pureVars>>

\* one call of webdrivers.make_driver_from_env
MakeDriverFromEnv(default, o) ==
    /\ fp = Idle
    /\ fp' = [call |-> "make_driver_from_env", default |-> default, o |-> o,
              cache |-> param_cache, env |-> env,
              r |-> [make_driver_from_env(default, env, disk, o)
                       EXCEPT !.cache = param_cache]]
    /\ UNCHANGED <<provVars, cfgVars, ovVars, waitVars, pureVars>>

\* the caller has the session, or the exception
FromReturn ==
    /\ fp # Idle
    /\ fp' = Idle
    /\ UNCHANGED <<provVars, cfgVars, ovVars, waitVars, pureVars>>

vars == <<disk, drv, file, param_cache, lastRead, ld, env, ov, wt, rs, ps, fp>>

Init ==
    /\ disk = {}
    /\ drv = Idle
    /\ file = None
    /\ param_cache = None
    /\ lastRead = None
    /\ ld = Idle
    /\ env = [n \in EnvNames |-> None]
    /\ ov = Idle
    /\ wt = Idle
    /\ rs = Idle
    /\ ps = Idle
    /\ fp = Idle

NextProvision ==
    \/ \E path \in DriverPaths : InstallDriver(path)
    \/ \E path \in DriverPaths : RemoveDriver(path)
    \/ /\ drv = Idle
       /\ \E browser \in BrowserArgs, headless \in BOOLEAN, prefer_manager \in BOOLEAN,
             iw \in ImplicitWaits, plt \in Timeouts, st \in Timeouts, o \in Outcomes :
            CreateDriver(browser, headless, prefer_manager, iw, plt, st, o)
    \/ /\ drv = Idle
       /\ \E browser \in BrowserArgs, headless \in BOOLEAN, prefer_manager \in BOOLEAN,
             iw \in ImplicitWaits, o \in MakeOutcomes :
            MakeDriver(browser, headless, prefer_manager, iw, o)
    \/ Quit

SpecProvision == Init /\ [][NextProvision]_vars

NextLoad ==
    \/ \E content \in Files : WriteFile(content)
    \/ DeleteFile
    \/ \E force_reload \in BOOLEAN : Load(force_reload)

SpecLoad == Init /\ [][NextLoad]_vars

NextOverlay ==
    \/ \E name \in EnvNames : \E value \in EnvValues(name) : SetEnv(name, value)
    \/ \E name \in EnvNames : UnsetEnv(name)
    \/ \E params \in ParamMaps : OverlayEnv(params)
    \/ OverlayReturn

SpecOverlay == Init /\ [][NextOverlay]_vars

NextWait ==
    \/ \E call \in WaitHelpers, timeout \in WaitTimeouts :
          \E a \in HelperArgs(call) : StartWait(call, timeout, a)
    \/ \E e \in Evaluations : Poll(e)
    \/ WaitReturn

SpecWait == Init /\ [][NextWait]_vars

NextResolve ==
    \/ \E path \in DriverPaths : InstallDriver(path)
    \/ \E path \in DriverPaths : RemoveDriver(path)
    \/ \E fn \in PathFunctions, root \in Roots, browser \in KindArgs :
            Resolve(fn, root, browser)

SpecResolve == Init /\ [][NextResolve]_vars

NextParse ==
    \/ /\ ps = Idle
       /\ \E text \in Texts : ReadProperties(text)
    \/ ReadReturn

SpecParse == Init /\ [][NextParse]_vars

\* file, environment and disk change between two calls
NextFromProperties ==
    \/ /\ fp = Idle
       /\ \E content \in PropFiles : WriteFile(content)
    \/ /\ fp = Idle
       /\ \E name \in FpEnvNames : \E value \in FpEnvValues(name) : SetEnv(name, value)
    \/ /\ fp = Idle
       /\ \E name \in EnvNames : UnsetEnv(name)
    \/ /\ fp = Idle
       /\ InstallDriver(_find_repo_root \o <<"drivers", "chromedriver-win64", "chromedriver.exe">>)
    \/ /\ fp = Idle
       /\ \E o \in FpOutcomes : FromProperties(o)
    \/ /\ fp = Idle
       /\ \E default \in {Chrome, Firefox}, o \in FromEnvOutcomes :
             MakeDriverFromEnv(default, o)
    \/ FromReturn

SpecFromProperties == Init /\ [][NextFromProperties]_vars

(***************************************************************************)
(* Vocabulary of the provisioning claims.  All of it reads the record of   *)
(* the last call: its arguments, the scripted outcomes of the              *)
(* collaborators, and the result with its trace.                           *)
(***************************************************************************)
InCreateDriver == drv # Idle /\ drv.call = "create_driver"
InProvision == drv # Idle

Kind == Lower(drv.browser)
SupportedKind == Kind \in Browser

\* positions of the calls of one operation in the trace
At(op) == {i \in 1..Len(drv.res.trace) : drv.res.trace[i].op = op}

\* the error classes the spec calls recoverable
Recoverable == WebDriverErrors

\* the setter the script makes fail is one the call asks for
Requested(s) ==
    \/ s = "implicitly_wait" /\ drv.implicit_wait_s # 0
    \/ s = "set_page_load_timeout" /\ drv.page_load_timeout_s # None
    \/ s = "set_script_timeout" /\ drv.script_timeout_s # None

ManagedSetterRaised ==
    IF Requested(drv.o.managerFail.at) THEN drv.o.managerFail.cls ELSE "none"

LocalSetterRaised ==
    IF Requested(drv.o.localFail.at) THEN drv.o.localFail.cls ELSE "none"

\* what the managed attempt (constructor, then timeouts) ends with
ManagedFailure ==
    IF drv.o.manager # "ok" THEN drv.o.manager ELSE ManagedSetterRaised

ManagedFailedRecoverable ==
    /\ SupportedKind
    /\ drv.prefer_manager
    /\ ManagedFailure \in Recoverable

\* the per-kind executable of the spec, section 4.2
KindPath ==
    CASE Kind = Chrome -> <<"repo", "drivers", "chromedriver-win64", "chromedriver.exe">>
      [] Kind = Edge -> <<"repo", "drivers", "edge", "msedgedriver.exe">>
      [] Kind = Firefox -> <<"repo", "drivers", "firefox", "geckodriver.exe">>
      [] OTHER -> <<>>

LocalExists == KindPath \in disk

ReturnedPlan(plan) ==
    /\ drv.res.status = "returned"
    /\ drv.res.session # None
    /\ drv.res.session[1].plan = plan

RaisedClass(cls) ==
    /\ drv.res.status = "raised"
    /\ drv.res.session = None
    /\ drv.res.exc[1].type = cls

\* the local constructor got the options the managed constructor got
SameLaunchOptions ==
    \A i \in At("manager_ctor"), j \in At("local_ctor") :
        drv.res.trace[i].args = drv.res.trace[j].args

\* the options of the one managed constructor call
ManagedArgs == drv.res.trace[CHOOSE i \in At("manager_ctor") : TRUE].args

Applied(on) ==
    \A s \in Setters :
        Requested(s) => \E i \in At(s) : drv.res.trace[i].on = on

(***************************************************************************)
(* C1 (as stated).  preferManaged, a recoverable failure of the managed    *)
(* attempt and a local executable at the resolved path: create_driver      *)
(* returns a session of the local plan, launched with the LaunchOptions    *)
(* the managed attempt was given.                                          *)
(***************************************************************************)
C1_AsStated ==
    (InCreateDriver /\ ManagedFailedRecoverable /\ LocalExists) =>
        /\ ReturnedPlan("local")
        /\ SameLaunchOptions
        /\ drv.res.session[1].args = ManagedArgs

(***************************************************************************)
(* C1 (amended).  In that case create_driver launches the local plan once, *)
(* with the LaunchOptions the managed attempt was given (a headless        *)
(* argument exactly when headless was requested), and returns the session  *)
(* of the local plan unless the local constructor or a timeout setter of   *)
(* that session raises; then that error propagates.                        *)
(***************************************************************************)
C1_LocalFallback ==
    (InCreateDriver /\ ManagedFailedRecoverable /\ LocalExists) =>
        /\ Cardinality(At("manager_ctor")) = 1
        /\ Cardinality(At("local_ctor")) = 1
        /\ SameLaunchOptions
        /\ (ManagedArgs # <<>>) <=> drv.headless
        /\ (drv.o.local = "ok" /\ LocalSetterRaised = "none") =>
              /\ ReturnedPlan("local")
              /\ drv.res.session[1].args = ManagedArgs
              /\ drv.res.session[1].path = KindPath
        /\ drv.o.local # "ok" => RaisedClass(drv.o.local)
        /\ (drv.o.local = "ok" /\ LocalSetterRaised # "none") =>
              RaisedClass(LocalSetterRaised)

C1_Witness ==
    /\ InCreateDriver /\ ManagedFailedRecoverable /\ LocalExists
    /\ drv.headless
    /\ ReturnedPlan("local")
    /\ drv.res.session[1].args # <<>>

(***************************************************************************)
(* C2.  A recoverable failure of the managed attempt and no executable at  *)
(* the resolved path: create_driver raises the missing-local-driver error  *)
(* (FileNotFoundError), never calls the local constructor, returns no      *)
(* session, and the message carries the browser kind and the path tried.   *)
(***************************************************************************)
C2_LocalDriverMissing ==
    (InCreateDriver /\ ManagedFailedRecoverable /\ ~LocalExists) =>
        /\ RaisedClass("FileNotFoundError")
        /\ At("local_ctor") = {}
        /\ drv.res.exc[1].browser = Kind
        /\ drv.res.exc[1].driver_path = KindPath
        /\ \A i \in At("exists") : drv.res.trace[i].path = drv.res.exc[1].driver_path

C2_Witness ==
    /\ InCreateDriver /\ ManagedFailedRecoverable /\ ~LocalExists
    /\ RaisedClass("FileNotFoundError")
    /\ At("exists") # {}

(***************************************************************************)
(* C3.  preferManaged and a managed constructor that returns a session:    *)
(* that session gets the SessionConfig and is the one returned; the local  *)
(* driver is neither checked nor launched in the call.                     *)
(***************************************************************************)
C3_ManagedSessionReturned ==
    (InCreateDriver /\ SupportedKind /\ drv.prefer_manager /\ drv.o.manager = "ok") =>
        /\ At("exists") = {}
        /\ At("local_ctor") = {}
        /\ drv.res.status = "returned" => (ReturnedPlan("managed") /\ Applied("managed"))

(***************************************************************************)
(* C4 (as stated).  After a managed attempt the local plan is entered only *)
(* when the attempt failed with a recoverable class; any other failure of  *)
(* the attempt is the error of the call, and the local driver is not       *)
(* resolved, checked or launched.                                          *)
(***************************************************************************)
C4_AsStated ==
    (InCreateDriver /\ SupportedKind /\ drv.prefer_manager) =>
        /\ (At("exists") \cup At("local_ctor")) # {} => ManagedFailure \in Recoverable
        /\ ManagedFailure \notin (Recoverable \cup {"none"}) =>
              /\ RaisedClass(ManagedFailure)
              /\ At("_local_driver_path") = {}
              /\ At("exists") = {}
              /\ At("local_ctor") = {}

(***************************************************************************)
(* C4 (amended).  The same, except that the local path is resolved: it is  *)
(* resolved once, first thing in every call, before the managed attempt.   *)
(* After a non-recoverable failure the path is not checked and the local   *)
(* driver is not launched.                                                 *)
(***************************************************************************)
C4_FatalPropagates ==
    (InCreateDriver /\ SupportedKind /\ drv.prefer_manager) =>
        /\ (At("exists") \cup At("local_ctor")) # {} => ManagedFailure \in Recoverable
        /\ At("_local_driver_path") = {1}
        /\ ManagedFailure \notin (Recoverable \cup {"none"}) =>
              /\ RaisedClass(ManagedFailure)
              /\ At("exists") = {}
              /\ At("local_ctor") = {}

C4_Witness ==
    /\ InCreateDriver /\ SupportedKind /\ drv.prefer_manager
    /\ ManagedFailure = "OSError"
    /\ LocalExists
    /\ RaisedClass("OSError")

(***************************************************************************)
(* C5.  In one call of create_driver or make_driver the managed            *)
(* constructor runs at most once, the local constructor at most once,      *)
(* never the managed one after the local one, and a failure of the local   *)
(* constructor is the error of the call, with no call after it.            *)
(***************************************************************************)
C5_SingleFallback ==
    InProvision =>
        /\ Cardinality(At("manager_ctor")) <= 1
        /\ Cardinality(At("local_ctor")) <= 1
        /\ \A i \in At("manager_ctor"), j \in At("local_ctor") : i < j
        /\ (At("local_ctor") # {} /\ drv.o.local # "ok") =>
              /\ RaisedClass(drv.o.local)
              /\ At("local_ctor") = {Len(drv.res.trace)}

C5_Witness ==
    /\ InProvision
    /\ At("manager_ctor") # {}
    /\ At("local_ctor") # {}
    /\ drv.o.local # "ok"
    /\ drv.res.status = "raised"

(***************************************************************************)
(* Vocabulary of the configuration claims.                                 *)
(***************************************************************************)
\* the map a file content parses to
Parse(f) == _read_properties(f).data

Loaded == ld # Idle
MustRead == Loaded /\ (ld.cache = None \/ ld.force_reload)

(***************************************************************************)
(* C8.  The map a load returns is the parse of the file as it was at the   *)
(* most recent read, a read being made by a successful load on an empty    *)
(* cache or with force_reload: without force_reload a load on a filled     *)
(* cache returns the cached map whatever the file holds now, and a load    *)
(* with force_reload returns the parse of the file as it is and leaves it  *)
(* in the cache.                                                           *)
(***************************************************************************)
C8_CacheReflectsLastRead ==
    /\ param_cache # None => (lastRead # None /\ param_cache[1] = Parse(lastRead))
    /\ (Loaded /\ ld.res.status = "returned") =>
          /\ lastRead # None
          /\ ld.res.map = Some(Parse(lastRead))
          /\ param_cache = ld.res.map
          /\ (~ld.force_reload /\ ld.cache # None) => ld.res.map = ld.cache
          /\ ld.force_reload => ld.res.map = Some(Parse(ld.file))

\* a load without force_reload after the file changed to another map
C8_Witness ==
    /\ Loaded
    /\ ~ld.force_reload
    /\ ld.cache # None
    /\ ld.file # None
    /\ ld.res.status = "returned"
    /\ ld.res.map # Some(Parse(ld.file))
    /\ ld.res.map = ld.cache

(***************************************************************************)
(* C9.  A load that has to read (empty cache, or force_reload) while the   *)
(* file is absent raises the config-not-found error (FileNotFoundError)    *)
(* and leaves the cache as it was; a load on an empty cache reads the      *)
(* file, and a load without force_reload on a filled cache returns the     *)
(* cached map, also when the file is absent.                               *)
(***************************************************************************)
C9_FailedLoadKeepsCache ==
    /\ (MustRead /\ ld.file = None) =>
          /\ ld.res.status = "raised"
          /\ ld.res.exc = "FileNotFoundError"
          /\ ld.res.map = None
          /\ param_cache = ld.cache
    /\ (Loaded /\ ld.cache = None /\ ld.file # None) =>
          ld.res.map = Some(Parse(ld.file))
    /\ (Loaded /\ ~ld.force_reload /\ ld.cache # None) =>
          (ld.res.status = "returned" /\ ld.res.map = ld.cache)

\* a forced reload of a filled cache with the file gone
C9_Witness ==
    /\ Loaded
    /\ ld.force_reload
    /\ ld.file = None
    /\ ld.cache # None
    /\ ld.res.status = "raised"
    /\ param_cache = ld.cache

(***************************************************************************)
(* Vocabulary of the overlay claim.                                        *)
(***************************************************************************)
Overlaid == ov # Idle

\* the precedence mode: CONFIG_PRECEDENCE, trimmed and lower-cased, "file"
\* when the variable is not set
PrecedenceMode ==
    IF env["CONFIG_PRECEDENCE"] = None THEN <<"file">>
    ELSE Lower(Strip(env["CONFIG_PRECEDENCE"][1]))

\* the known keys and their environment variables
KnownKeys ==
    { << <<"browser">>, "BROWSER">>, << <<"url">>, "BASE_URL">>,
      << <<"headless">>, "HEADLESS">>,
      << <<"prefer_manager">>, "SELENIUM_PREFER_MANAGER">>,
      << <<"timeout">>, "TIMEOUT">>,
      << <<"page_load_timeout">>, "PAGE_LOAD_TIMEOUT">>,
      << <<"script_timeout">>, "SCRIPT_TIMEOUT">>,
      << <<"window">>, "WINDOW">>,
      << <<"se_proxy">>, "SE_PROXY">>,
      << <<"se_cache_path">>, "SE_CACHE_PATH">>,
      << <<"se_offline">>, "SE_OFFLINE">> }

\* key k has in map m the value it has in map n (or is in neither)
SameAt(k, m, n) ==
    /\ (k \in DOMAIN m) <=> (k \in DOMAIN n)
    /\ k \in DOMAIN n => m[k] = n[k]

(***************************************************************************)
(* C10.  Under precedence mode "env" every known key of the map            *)
(* _overlay_env returns holds the value of its environment variable when   *)
(* that variable is set and not empty, and the file value otherwise;       *)
(* under any other mode, the default included, the map returned is the     *)
(* file map.  File browser=chrome with BROWSER=firefox gives firefox       *)
(* under "env" and chrome otherwise.                                       *)
(***************************************************************************)
C10_OverlayPrecedence ==
    Overlaid =>
        /\ PrecedenceMode = <<"env">> =>
              \A kv \in KnownKeys :
                  IF env[kv[2]] # None /\ env[kv[2]][1] # <<>>
                    THEN kv[1] \in DOMAIN ov.res /\ ov.res[kv[1]] = env[kv[2]][1]
                    ELSE SameAt(kv[1], ov.res, ov.params)
        /\ PrecedenceMode # <<"env">> => ov.res = ov.params
        /\ ( /\ <<"browser">> \in DOMAIN ov.params
             /\ ov.params[<<"browser">>] = <<"chrome">>
             /\ env["BROWSER"] = Some(<<"firefox">>) ) =>
              ov.res[<<"browser">>] =
                 IF PrecedenceMode = <<"env">> THEN <<"firefox">> ELSE <<"chrome">>

C10_Witness ==
    /\ Overlaid
    /\ PrecedenceMode = <<"env">>
    /\ <<"browser">> \in DOMAIN ov.params
    /\ ov.params[<<"browser">>] = <<"chrome">>
    /\ env["BROWSER"] = Some(<<"firefox">>)
    /\ ov.res[<<"browser">>] = <<"firefox">>

(***************************************************************************)
(* Vocabulary of the wait claims.                                          *)
(***************************************************************************)
Waiting == wt # Idle

\* the three things an evaluation can report
Satisfied(e) == e.raise = "" /\ e.value # ""
NotYet(e) == (e.raise = "" /\ e.value = "") \/ e.raise = "NoSuchElementException"
Terminal(e) == ~Satisfied(e) /\ ~NotYet(e)

AllNotYet(outs, n) == \A i \in 1..n : NotYet(outs[i])

(***************************************************************************)
(* C6.  A wait ends in exactly one of three ways: it returns the result of *)
(* the first satisfied evaluation, which is the last evaluation made; it   *)
(* raises the timeout error (TimeoutException) after the timeout elapsed   *)
(* with every evaluation not yet satisfied; or it raises the terminal      *)
(* failure of an evaluation, which is the last evaluation made, and never  *)
(* the timeout error in its place.                                         *)
(***************************************************************************)
C6_UntilEndings ==
    Waiting =>
        LET n == Len(wt.outs) IN
        /\ wt.u.status \in {"polling", "returned", "raised"}
        /\ wt.u.status = "polling" => (AllNotYet(wt.outs, n) /\ wt.now <= wt.w.timeout)
        /\ wt.u.status = "returned" =>
              /\ n >= 1
              /\ Satisfied(wt.outs[n])
              /\ wt.u.value = wt.outs[n].value
              /\ AllNotYet(wt.outs, n - 1)
        /\ (wt.u.status = "raised" /\ wt.u.exc = "TimeoutException") =>
              /\ n >= 1
              /\ AllNotYet(wt.outs, n)
              /\ wt.now > wt.w.timeout
        /\ (wt.u.status = "raised" /\ wt.u.exc # "TimeoutException") =>
              /\ n >= 1
              /\ Terminal(wt.outs[n])
              /\ wt.u.exc = wt.outs[n].raise
              /\ AllNotYet(wt.outs, n - 1)

\* a terminal failure after some polling
C6_Witness ==
    /\ Waiting
    /\ Len(wt.outs) >= 3
    /\ Terminal(wt.outs[Len(wt.outs)])
    /\ wt.u.status = "raised"
    /\ wt.u.exc = "InvalidSelectorException"

(***************************************************************************)
(* C7.  exists returns True when its wait returned, returns False when     *)
(* its wait raised the timeout error, and raises what its wait raised      *)
(* otherwise: it never raises the timeout error and never turns a          *)
(* terminal failure of the condition into False.                           *)
(***************************************************************************)
C7_ExistsTimeoutIsFalse ==
    (Waiting /\ wt.call = "exists") =>
        /\ wt.u.status = "polling" => wt.res.status = "polling"
        /\ wt.u.status = "returned" =>
              (wt.res.status = "returned" /\ wt.res.value = "True")
        /\ (wt.u.status = "raised" /\ wt.u.exc = "TimeoutException") =>
              (wt.res.status = "returned" /\ wt.res.value = "False")
        /\ (wt.u.status = "raised" /\ wt.u.exc # "TimeoutException") =>
              (wt.res.status = "raised" /\ wt.res.exc = wt.u.exc)
        /\ ~(wt.res.status = "raised" /\ wt.res.exc = "TimeoutException")
        /\ (wt.outs # <<>> /\ Terminal(wt.outs[Len(wt.outs)])) =>
              (wt.res.status = "raised" /\ wt.res.exc = wt.outs[Len(wt.outs)].raise)

\* exists on an element that never shows up
C7_Witness ==
    /\ Waiting
    /\ wt.call = "exists"
    /\ wt.outs # <<>>
    /\ wt.u.exc = "TimeoutException"
    /\ wt.res.status = "returned"
    /\ wt.res.value = "False"
(***************************************************************************)
(* C11.  _local_driver_path (both copies) is a function of root and kind   *)
(* alone: root/drivers/chromedriver-win64/chromedriver.exe for chrome,     *)
(* root/drivers/edge/msedgedriver.exe for edge,                            *)
(* root/drivers/firefox/geckodriver.exe for firefox, ValueError for every  *)
(* other kind, whether or not the executable is on disk.                   *)
(***************************************************************************)
C11_ResolveTable ==
    rs # Idle =>
        /\ rs.browser = <<"chrome">> =>
              rs.res = Some(rs.root \o <<"drivers", "chromedriver-win64", "chromedriver.exe">>)
        /\ rs.browser = <<"edge">> =>
              rs.res = Some(rs.root \o <<"drivers", "edge", "msedgedriver.exe">>)
        /\ rs.browser = <<"firefox">> =>
              rs.res = Some(rs.root \o <<"drivers", "firefox", "geckodriver.exe">>)
        /\ rs.browser \notin {<<"chrome">>, <<"edge">>, <<"firefox">>} => rs.res = None

\* a path is returned for an executable that is not on disk
C11_Witness ==
    /\ rs # Idle
    /\ rs.browser = <<"firefox">>
    /\ rs.res # None
    /\ rs.res[1] \notin disk
    /\ disk # {}

(***************************************************************************)
(* C12.  A session that create_driver or make_driver returns was created   *)
(* once in the call and then, before the return, got each requested        *)
(* setting exactly once with the requested value: the implicit wait (a     *)
(* wait of 0 is the value a new session has, and is not sent), the         *)
(* page-load timeout when given, the script timeout when given; nothing    *)
(* else is set on it.  The plan the session came from makes no difference. *)
(***************************************************************************)
CtorOf(plan) == IF plan = "managed" THEN "manager_ctor" ELSE "local_ctor"

\* positions of the calls of setter s on the session of the plan
SetOn(s, plan) == {i \in At(s) : drv.res.trace[i].on = plan}

\* the value asked for setter s, None when the call does not ask for it
Asked(s) ==
    CASE s = "implicitly_wait" ->
           IF drv.implicit_wait_s = 0 THEN None ELSE Some(drv.implicit_wait_s)
      [] s = "set_page_load_timeout" -> drv.page_load_timeout_s
      [] s = "set_script_timeout" -> drv.script_timeout_s

C12_ConfigAppliedOnce ==
    (InProvision /\ drv.res.status = "returned") =>
        LET plan == drv.res.session[1].plan
        IN /\ Cardinality(At(CtorOf(plan))) = 1
           /\ \A s \in Setters :
                 /\ Cardinality(SetOn(s, plan)) = (IF Asked(s) = None THEN 0 ELSE 1)
                 /\ \A i \in SetOn(s, plan) :
                       /\ drv.res.trace[i].value = Asked(s)
                       /\ \A c \in At(CtorOf(plan)) : c < i

\* the local session is returned after the managed one was partly configured
C12_Witness ==
    /\ InCreateDriver
    /\ ReturnedPlan("local")
    /\ drv.implicit_wait_s # 0
    /\ drv.page_load_timeout_s # None
    /\ drv.script_timeout_s # None
    /\ SetOn("implicitly_wait", "managed") # {}
    /\ \A s \in Setters : SetOn(s, "local") # {}

(***************************************************************************)
(* C16 (as stated).  With prefer_manager false the managed constructor is  *)
(* not called; the call returns a session of the local plan when the       *)
(* executable exists and raises the missing-local-driver error when not.   *)
(***************************************************************************)
C16_AsStated ==
    (InCreateDriver /\ SupportedKind /\ ~drv.prefer_manager) =>
        /\ At("manager_ctor") = {}
        /\ LocalExists => ReturnedPlan("local")
        /\ ~LocalExists => RaisedClass("FileNotFoundError")

(***************************************************************************)
(* C16 (amended).  With prefer_manager false the managed constructor is    *)
(* not called and the first thing done after resolving the path is the     *)
(* existence check.  Without the executable the call raises the            *)
(* missing-local-driver error and launches nothing; with it the local      *)
(* constructor is called once and its session returned, unless the         *)
(* constructor or a timeout setter raises, and then that error propagates. *)
(***************************************************************************)
C16_LocalOnly ==
    (InCreateDriver /\ SupportedKind /\ ~drv.prefer_manager) =>
        /\ At("manager_ctor") = {}
        /\ At("log.warning") = {}
        /\ At("exists") = {2}
        /\ drv.res.trace[2].path = KindPath
        /\ ~LocalExists => (RaisedClass("FileNotFoundError") /\ At("local_ctor") = {})
        /\ LocalExists =>
              /\ At("local_ctor") = {3}
              /\ (drv.o.local = "ok" /\ LocalSetterRaised = "none") =>
                    (ReturnedPlan("local") /\ drv.res.session[1].path = KindPath)
              /\ drv.o.local # "ok" => RaisedClass(drv.o.local)
              /\ (drv.o.local = "ok" /\ LocalSetterRaised # "none") =>
                    RaisedClass(LocalSetterRaised)

\* the managed plan would have worked, and is not tried
C16_Witness ==
    /\ InCreateDriver /\ SupportedKind /\ ~drv.prefer_manager
    /\ drv.o.manager = "ok"
    /\ LocalExists
    /\ ReturnedPlan("local")

(***************************************************************************)
(* C17.  create_driver and make_driver called with a kind that is not      *)
(* chrome, edge or firefox (letter case apart) raise ValueError with       *)
(* nothing launched: no managed constructor, no local constructor and no   *)
(* existence check, whatever prefer_manager is.                            *)
(***************************************************************************)
C17_UnsupportedKindLaunchesNothing ==
    (InProvision /\ ~SupportedKind) =>
        /\ RaisedClass("ValueError")
        /\ At("manager_ctor") = {}
        /\ At("local_ctor") = {}
        /\ At("exists") = {}
        /\ \A s \in Setters : At(s) = {}

C17_Witness ==
    /\ InProvision /\ ~SupportedKind
    /\ drv.browser = <<"safari">>
    /\ drv.prefer_manager
    /\ drv.o.manager = "ok"
    /\ KindPath \notin disk /\ disk # {}
    /\ RaisedClass("ValueError")

(***************************************************************************)
(* C15.  The map _read_properties builds from a text is the one its lines  *)
(* give, taken in order: a line that is blank, or whose first non-blank    *)
(* character is # or ;, or that has no =, gives nothing and raises         *)
(* nothing; any other line gives the pair (text before its first =,        *)
(* text after its first =), both trimmed; of the lines that give the same  *)
(* key the last one decides the value.                                     *)
(***************************************************************************)
NonBlank(t) == {n \in 1..Len(t) : t[n] # " "}

Min(S) == CHOOSE n \in S : \A m \in S : n <= m
Max(S) == CHOOSE n \in S : \A m \in S : m <= n

\* t without the blanks at its two ends
Trimmed(t) == IF NonBlank(t) = {} THEN <<>>
              ELSE SubSeq(t, Min(NonBlank(t)), Max(NonBlank(t)))

Eqs(t) == {n \in 1..Len(t) : t[n] = "="}

Contributes(line) ==
    /\ NonBlank(line) # {}
    /\ line[Min(NonBlank(line))] \notin {"#", ";"}
    /\ Eqs(line) # {}

KeyOf(line) == Trimmed(SubSeq(line, 1, Min(Eqs(line)) - 1))
ValueOf(line) == Trimmed(SubSeq(line, Min(Eqs(line)) + 1, Len(line)))

\* the lines of the text of the last call
TextLines == splitlines(ps.text)

\* the numbers of the lines that give key k
LinesOf(k) == {n \in 1..Len(TextLines) :
                  Contributes(TextLines[n]) /\ KeyOf(TextLines[n]) = k}

C15_ParserMap ==
    ps # Idle =>
        /\ ps.res.raised = "none"
        /\ DOMAIN ps.res.data =
              {KeyOf(TextLines[n]) : n \in {m \in 1..Len(TextLines) : Contributes(TextLines[m])}}
        /\ \A k \in DOMAIN ps.res.data :
              ps.res.data[k] = ValueOf(TextLines[Max(LinesOf(k))])

\* two lines give the same key with different values, the later one with
\* a second = in it
C15_Witness ==
    /\ ps # Idle
    /\ \E k \in DOMAIN ps.res.data :
          /\ Cardinality(LinesOf(k)) = 2
          /\ ValueOf(TextLines[Min(LinesOf(k))]) # ValueOf(TextLines[Max(LinesOf(k))])
          /\ Cardinality(Eqs(TextLines[Max(LinesOf(k))])) = 2
          /\ ps.res.data[k] = ValueOf(TextLines[Max(LinesOf(k))])

(***************************************************************************)
(* C14.  click waits for the element to be clickable and type_text for it  *)
(* to be visible.  When the wait returns an element, click calls click()   *)
(* on it once, and type_text calls send_keys(text) on it at most once,     *)
(* after a clear() that is called exactly when clear is true.  When the    *)
(* wait raises (timeout or another exception) nothing is called on any     *)
(* element and the helper raises what the wait raised; nothing is called   *)
(* while the wait is polling.                                              *)
(***************************************************************************)
ActsOf(op) == {i \in 1..Len(wt.acts) : wt.acts[i].op = op}

C14_ActAfterWait ==
    (wt # Idle /\ wt.call \in {"click", "type_text"}) =>
        /\ wt.call = "click" => wt.cond = "element_to_be_clickable"
        /\ wt.call = "type_text" => wt.cond = "visibility_of_element_located"
        /\ wt.u.status # "returned" => wt.acts = <<>>
        /\ wt.u.status = "raised" => wt.res = wt.u
        /\ wt.u.status = "returned" =>
              /\ \A i \in 1..Len(wt.acts) : wt.acts[i].el = wt.u.value
              /\ wt.call = "click" =>
                    (Len(wt.acts) = 1 /\ wt.acts[1].op = "click")
              /\ wt.call = "type_text" =>
                    /\ ActsOf("click") = {}
                    /\ Cardinality(ActsOf("send_keys")) <= 1
                    /\ ActsOf("send_keys") = {} => wt.res.status = "raised"
                    /\ \A i \in ActsOf("send_keys") : wt.acts[i].text = wt.a.text
                    /\ wt.a.clear <=> ActsOf("clear") = {1}
                    /\ ~wt.a.clear => ActsOf("clear") = {}
                    /\ \A i \in ActsOf("clear"), j \in ActsOf("send_keys") : i < j

\* the element became visible on a later poll; it is cleared, then typed into
C14_Witness ==
    /\ wt # Idle /\ wt.call = "type_text"
    /\ wt.a.clear
    /\ Len(wt.outs) > 1
    /\ wt.u.status = "returned"
    /\ Len(wt.acts) = 2
    /\ wt.acts[2].op = "send_keys" /\ wt.acts[2].text = <<"hello">>
    /\ wt.res.status = "returned"

(***************************************************************************)
(* Vocabulary of the claims about create_from_properties and               *)
(* make_driver_from_env.                                                   *)
(***************************************************************************)
InFromProperties == fp # Idle /\ fp.call = "create_from_properties"
InFromEnv == fp # Idle /\ fp.call = "make_driver_from_env"

\* the file was there, or the cache was filled: the call has a map
HasMap == InFromProperties /\ fp.r.loaded # None

\* the map after the overlay
Effective == fp.r.params[1]

Has(k) == <<k>> \in DOMAIN Effective

FpAt(op) == {i \in 1..Len(fp.r.res.trace) : fp.r.res.trace[i].op = op}

Launches == FpAt("manager_ctor") \cup FpAt("local_ctor")

Supported == {<<"chrome">>, <<"edge">>, <<"firefox">>}

\* the configured browser is there and is not one of the three kinds
ConfiguredInvalid == HasMap /\ Has("browser") /\ Lower(Effective[<<"browser">>]) \notin Supported

EnvInvalid ==
    /\ InFromEnv
    /\ fp.env["BROWSER"] # None
    /\ Lower(fp.env["BROWSER"][1]) \notin Supported

UnsupportedBrowser ==
    /\ fp.r.res.status = "raised"
    /\ fp.r.res.exc[1].type = "ValueError"
    /\ fp.r.res.exc[1].fmt = "browser debe ser: chrome | edge | firefox"

(***************************************************************************)
(* C13 (as stated).  When the configured browser, after the overlay, is    *)
(* not chrome, edge or firefox, create_from_properties raises the          *)
(* unsupported-browser error and launches nothing.                         *)
(***************************************************************************)
C13_AsStated ==
    ConfiguredInvalid => (UnsupportedBrowser /\ Launches = {})

(***************************************************************************)
(* C13 (amended).  An invalid configured browser is not fatal:             *)
(* create_from_properties goes on with chrome, and make_driver_from_env    *)
(* with its default kind, as if that kind had been configured; neither     *)
(* ever raises the unsupported-browser error for it.                       *)
(***************************************************************************)
C13_InvalidKindBecomesDefault ==
    /\ ConfiguredInvalid =>
          /\ ~UnsupportedBrowser
          /\ fp.r.passed # None => fp.r.passed[1].browser = <<"chrome">>
          /\ fp.r.res.status = "returned" => fp.r.res.session[1].browser = <<"chrome">>
    /\ EnvInvalid =>
          /\ ~UnsupportedBrowser
          /\ fp.r.passed[1].browser = fp.default
          /\ fp.r.res.status = "returned" => fp.r.res.session[1].browser = fp.default

\* safari is configured and a chrome session comes back
C13_Witness ==
    /\ ConfiguredInvalid
    /\ Effective[<<"browser">>] = <<"safari">>
    /\ fp.r.res.status = "returned"
    /\ fp.r.res.session[1].browser = <<"chrome">>
    /\ Launches # {}

(***************************************************************************)
(* C18 (as stated).  The overlay inside create_from_properties leaves the  *)
(* cached map as it was loaded, and the map it returns differs from the    *)
(* loaded one only at browser, url, headless, prefer_manager, timeout,     *)
(* page_load_timeout, script_timeout, window, proxy, cache_path, offline.  *)
(***************************************************************************)
StatedKeys ==
    {<<"browser">>, <<"url">>, <<"headless">>, <<"prefer_manager">>, <<"timeout">>,
     <<"page_load_timeout">>, <<"script_timeout">>, <<"window">>,
     <<"proxy">>, <<"cache_path">>, <<"offline">>}

\* the cache is the loaded map, the one a load without force_reload returns
CacheKept ==
    /\ param_cache = fp.r.loaded
    /\ fp.cache # None => param_cache = fp.cache
    /\ param_cache = Some(Parse(lastRead))
    /\ load_parametrization(param_cache, file, FALSE).map = param_cache

FrameOutside(keys) ==
    \A k \in (DOMAIN Effective \cup DOMAIN fp.r.loaded[1]) \ keys :
        SameAt(k, Effective, fp.r.loaded[1])

WindowValue ==
    Lower(Trimmed(IF Has("window") THEN Effective[<<"window">>] ELSE <<>>))

IsMaximize == WindowValue = <<"m", "a", "x", "i", "m", "i", "z", "e">>

DigitSeq == <<"0", "1", "2", "3", "4", "5", "6", "7", "8", "9">>

DigitString(t) ==
    t # <<>> /\ \A i \in 1..Len(t) : \E n \in 1..10 : DigitSeq[n] = t[i]

\* the places of an x with a digit string on each side
SizeSplits ==
    {i \in 1..Len(WindowValue) :
        /\ WindowValue[i] = "x"
        /\ DigitString(SubSeq(WindowValue, 1, i - 1))
        /\ DigitString(SubSeq(WindowValue, i + 1, Len(WindowValue)))}

IsSize == SizeSplits # {}

RECURSIVE Pow10(_)
Pow10(n) == IF n = 0 THEN 1 ELSE 10 * Pow10(n - 1)

\* the number a digit string writes
RECURSIVE Number(_)
Number(t) ==
    IF t = <<>> THEN 0
    ELSE ((CHOOSE n \in 1..10 : DigitSeq[n] = t[1]) - 1) * Pow10(Len(t) - 1)
           + Number(Tail(t))

\* create_driver was called and returned a session
Provisioned == HasMap /\ fp.r.created # None /\ fp.r.created[1].status = "returned"

WindowCalls == FpAt("maximize_window") \cup FpAt("set_window_size")

C19_WindowOnlyWhenRecognised ==
    /\ (fp # Idle /\ ~Provisioned) => WindowCalls = {}
    /\ Provisioned =>
          LET made == fp.r.created[1]
              trace == fp.r.res.trace
          IN /\ Cardinality(FpAt("maximize_window")) = (IF IsMaximize THEN 1 ELSE 0)
             /\ Cardinality(FpAt("set_window_size")) = (IF IsSize THEN 1 ELSE 0)
             /\ \A i \in FpAt("set_window_size"), x \in SizeSplits :
                   trace[i].args =
                     <<Number(SubSeq(WindowValue, 1, x - 1)),
                       Number(SubSeq(WindowValue, x + 1, Len(WindowValue)))>>
             /\ SubSeq(trace, 1, Len(made.trace)) = made.trace
             /\ \A i \in WindowCalls :
                   /\ i = Len(made.trace) + 1
                   /\ trace[i].on = made.session[1].plan
             /\ (~IsMaximize /\ ~IsSize) => fp.r.res = made
             /\ fp.r.res.status = "returned" => fp.r.res.session = made.session

\* 80x60 in the file: the session is sized 80 by 60 and returned
C19_Witness ==
    /\ Provisioned
    /\ WindowValue = <<"8", "0", "x", "6", "0">>
    /\ \E i \in FpAt("set_window_size") : fp.r.res.trace[i].args = <<80, 60>>
    /\ fp.r.res.status = "returned"

(***************************************************************************)
(* C20.  create_from_properties passes create_driver, as page-load         *)
(* timeout and as script timeout, the number of the timeout's own key      *)
(* when that key is there with a value that is not blank, else the number  *)
(* of the key timeout, else nothing, and then no setter of that timeout    *)
(* is called on any session.  It passes prefer_manager true when the key   *)
(* prefer_manager is not there and headless false when the key headless    *)
(* is not there.                                                           *)
(***************************************************************************)
Given(k) == Has(k) /\ Trimmed(Effective[<<k>>]) # <<>>

\* the number of seconds a value writes
Seconds(v) ==
    CASE Trimmed(v) = <<"0">> -> 0
      [] Trimmed(v) = <<"5">> -> 5
      [] Trimmed(v) = <<"30">> -> 30

ExpectedTimeout(k) ==
    IF Given(k) THEN Some(Seconds(Effective[<<k>>]))
    ELSE IF Given("timeout") THEN Some(Seconds(Effective[<<"timeout">>]))
    ELSE None

\* the setter was called on the session returned, with value v
SetOnReturned(setter, v) ==
    \E i \in FpAt(setter) :
        /\ fp.r.res.trace[i].on = fp.r.res.session[1].plan
        /\ fp.r.res.trace[i].value = v

C20_TimeoutsAndDefaults ==
    (HasMap /\ fp.r.passed # None) =>
        LET a == fp.r.passed[1]
        IN /\ a.page_load_timeout_s = ExpectedTimeout("page_load_timeout")
           /\ a.script_timeout_s = ExpectedTimeout("script_timeout")
           /\ ExpectedTimeout("page_load_timeout") = None => FpAt("set_page_load_timeout") = {}
           /\ ExpectedTimeout("script_timeout") = None => FpAt("set_script_timeout") = {}
           /\ fp.r.res.status = "returned" =>
                 /\ ExpectedTimeout("page_load_timeout") # None =>
                       SetOnReturned("set_page_load_timeout", ExpectedTimeout("page_load_timeout"))
                 /\ ExpectedTimeout("script_timeout") # None =>
                       SetOnReturned("set_script_timeout", ExpectedTimeout("script_timeout"))
           /\ ~Has("prefer_manager") => a.prefer_manager
           /\ ~Has("headless") => ~a.headless

\* page_load_timeout is there but empty, script_timeout is not there,
\* timeout is 30: both timeouts of the session are 30
C20_Witness ==
    /\ HasMap /\ fp.r.passed # None
    /\ Has("page_load_timeout") /\ ~Given("page_load_timeout")
    /\ ~Has("script_timeout") /\ ~Has("prefer_manager") /\ ~Has("headless")
    /\ fp.r.res.status = "returned"
    /\ SetOnReturned("set_page_load_timeout", Some(30))
    /\ SetOnReturned("set_script_timeout", Some(30))

(***************************************************************************)
(* Sessions a call leaves alive.  A constructor that returned has created  *)
(* a session (the trace holds the constructor call also when it raised:    *)
(* the script o says which it was); a session ends with a quit call on it. *)
(***************************************************************************)
CreatedIn(trace, o) ==
    {i \in 1..Len(trace) :
        \/ trace[i].op = "manager_ctor" /\ o.manager = "ok"
        \/ trace[i].op = "local_ctor" /\ o.local = "ok"}

TerminatedIn(trace) == {i \in 1..Len(trace) : trace[i].op = "quit"}

\* created during the call and not terminated by it
AliveAfter(res, o) ==
    {i \in CreatedIn(res.trace, o) :
        \A j \in TerminatedIn(res.trace) : res.trace[j].on # res.trace[i].on}

\* one session, the returned one, after a return; none after a failure
NoLeak(res, o) ==
    IF res.status = "returned"
      THEN /\ Cardinality(AliveAfter(res, o)) = 1
           /\ \A i \in AliveAfter(res, o) : res.trace[i].on = res.session[1].plan
      ELSE AliveAfter(res, o) = {}

(***************************************************************************)
(* C21.  No session is leaked by provisioning: after create_driver,        *)
(* make_driver, create_from_properties or make_driver_from_env, the        *)
(* sessions created during the call and not terminated are exactly the     *)
(* returned one when the call returned a session, and none when it        *)
(* failed, also when a timeout setter or the window call failed after a    *)
(* session was created.                                                    *)
(***************************************************************************)
C21_NoSessionLeak ==
    /\ InProvision => NoLeak(drv.res, drv.o)
    /\ fp # Idle => NoLeak(fp.r.res, fp.o)

\* the states in which a call has left a session alive that the caller
\* cannot reach: a setter raised on the session just created
C21_SetterFailureKeepsSession ==
    /\ InProvision
    /\ drv.res.status = "raised"
    /\ AliveAfter(drv.res, drv.o) # {}

\* the managed session was abandoned for the local one
C21_FallbackKeepsManagedSession ==
    /\ InProvision
    /\ ReturnedPlan("local")
    /\ Cardinality(AliveAfter(drv.res, drv.o)) = 2

\* the window call raised on the session create_driver returned
C21_WindowFailureKeepsSession ==
    /\ Provisioned
    /\ fp.r.res.status = "raised"
    /\ WindowCalls # {}
    /\ AliveAfter(fp.r.res, fp.o) # {}

(***************************************************************************)
(* The two factory variants side by side: the result the other variant     *)
(* comes to on the arguments, the disk and the collaborators' outcomes of  *)
(* the last call, and the constructor invocations of a trace with their    *)
(* options and executable.                                                 *)
(***************************************************************************)
NoTimeouts == drv.page_load_timeout_s = None /\ drv.script_timeout_s = None

OtherVariant ==
    IF drv.call = "make_driver"
      THEN create_driver(drv.browser, drv.headless, drv.prefer_manager,
                         drv.implicit_wait_s, None, None, disk, drv.o)
      ELSE make_driver(drv.browser, drv.headless, drv.prefer_manager,
                       drv.implicit_wait_s, disk, drv.o)

IsCtor(e) == e.op \in {"manager_ctor", "local_ctor"}

Invocation(e) == [op |-> e.op, args |-> e.args, path |-> e.path]

Constructed(trace) ==
    LET ctors == SelectSeq(trace, IsCtor)
    IN [i \in 1..Len(ctors) |-> Invocation(ctors[i])]

(***************************************************************************)
(* C22.  The duplicated factory variants are equivalent: on the same       *)
(* browser, headless flag, prefer_manager flag, implicit wait, disk and    *)
(* constructor and setter outcomes, make_driver and create_driver called   *)
(* without page-load and script timeouts invoke the same constructors in   *)
(* the same order with the same options, and end with the same result:     *)
(* the session of the same plan, or the same error.                        *)
(***************************************************************************)
C22_VariantsEquivalent ==
    InProvision /\ NoTimeouts =>
        /\ Constructed(drv.res.trace) = Constructed(OtherVariant.trace)
        /\ drv.res.status = OtherVariant.status
        /\ drv.res.session = OtherVariant.session
        /\ drv.res.exc = OtherVariant.exc

\* make_driver fell back to the local driver after a recoverable managed
\* failure, with a headless option and an implicit wait, and create_driver
\* does the same
C22_Witness ==
    /\ InProvision
    /\ drv.call = "make_driver"
    /\ drv.headless
    /\ drv.implicit_wait_s # 0
    /\ drv.o.manager = "WebDriverException"
    /\ Constructed(drv.res.trace) = Constructed(OtherVariant.trace)
    /\ Len(Constructed(drv.res.trace)) = 2
    /\ ReturnedPlan("local")
    /\ OtherVariant.session = drv.res.session

====
